---- MODULE Spec2Model ----
(***************************************************************************)
(* Model of the logit-backend cargo marketplace: the Cargo and             *)
(* CarrierRequest rows, the REST operations on them (cargo/views.py,       *)
(* cargo/serializers.py), the model save() overrides (cargo/models.py),    *)
(* the post_save handler of cargo/signals.py and the external ingestion    *)
(* endpoint.                                                               *)
(*                                                                         *)
(* Conventions.  A nullable foreign key to a user holds NULL or a user; a  *)
(* nullable key to a cargo holds 0 or a cargo pk; a nullable decimal holds *)
(* NoDec or a number; a nullable timestamp holds NULL or STAMP.            *)
(*                                                                         *)
(* Every request runs in one transaction (in_atomic_block): what a request *)
(* wrote is committed when it returns a response and rolled back when it   *)
(* ends in an unhandled exception, which is answered 500.  A task handed   *)
(* to delay() is put on the task queue and the caller goes on.             *)
(***************************************************************************)
EXTENDS Integers, Sequences, FiniteSets, TLC

VARIABLES
    role,       \* User.role of every user                (users/models.py:64)
    active,     \* the users whose is_active is set       (users/models.py:56)
    cargos,     \* the Cargo table: pk -> row             (cargo/models.py:187)
    requests,   \* the CarrierRequest table: pk -> row    (cargo/models.py:8)
    response,   \* the last request served: operation and HTTP status
    outbox,     \* messages and Notification rows produced by the last request
    pc,         \* concurrent assign_carrier: position of each in-flight request
    local,      \* concurrent assign_carrier: what each in-flight request holds
    batch,      \* create_external: the body returned for the last batch
    history,    \* the CargoStatusHistory table, oldest row first (cargo/models.py:571)
    body,       \* the data of the last response, for the operations that list rows
    accounts,   \* the telegram_id of every User row                    (users/models.py:49)
    ratings,    \* the Rating table: rows from_user, to_user, score      (core/models.py:120)
    rating,     \* User.rating of every user, in hundredths             (users/models.py:96)
    locations,  \* the Location table                                   (core/models.py:12)
    location_id_seq  \* the next value of the sequence behind Location.id

vars == <<role, active, accounts, ratings, rating, locations, location_id_seq, body, cargos, requests, response, outbox, pc, local, batch, history>>

----------------------------------------------------------------------------
(* Bounds of the model *)

MaxCargos == 1          \* cargo rows the REST specification creates
MaxRequests == 1        \* carrier-request rows the REST specification creates
MaxDim == 2             \* largest length, width, height or volume in a request
MaxOrders == 2          \* longest batch handed to create_external
MaxHistory == 1         \* status changes made in the admin change form
MaxPoint == 2           \* longest place name of a carrier request
MaxNeedle == 1          \* longest place name of a cargo
MaxDate == 2            \* latest ready date or loading date
MaxRatings == 3         \* rows of the Rating table
MaxLocationId == 3      \* largest id in an imported file
MaxCities == 2          \* cities in an imported file
MaxSeq == 3             \* import_locations runs while the id sequence is at most this
MaxLocations == 2       \* rows of the Location table in the radius search
MaxBound == 2           \* carrier-request rows in the specification of the binding

Users == {"u1", "u2"}
NULL == "null"
STAMP == "stamped"
NoDec == -1

UserOrder == <<"u1", "u2">>

\* The users who give and receive ratings.
RatingUsers == Users \cup {"u3", "u4"}

----------------------------------------------------------------------------
(* Vocabulary *)

Roles == {"student", "carrier", "cargo-owner", "logistics-company", "manager"}

CargoStatus ==
    {"draft", "pending_approval", "manager_approved", "pending", "assigned",
     "in_progress", "completed", "cancelled", "rejected", "expired"}

RequestStatus ==
    {"pending", "assigned", "accepted", "rejected", "completed", "cancelled"}

\* Static attributes of the users of the model.
is_verified(u) == TRUE
is_staff(u) == FALSE
is_active(u) == u \in active
tariff(u) == IF u = "u1" THEN "standard" ELSE "vip"

\* Vehicles: each user owns one.
Vehicles == {"v1", "v2"}
VehicleOwner(v) == IF v = "v1" THEN "u1" ELSE "u2"

----------------------------------------------------------------------------
(* Rows *)

DimFields == {"volume", "length", "width", "height"}

\* A Cargo row as Cargo.objects.create fills it from the model's defaults.
NewCargo(owner, status) ==
    [status |-> status, owner |-> owner, assigned_to |-> NULL,
     managed_by |-> NULL, approved_by |-> NULL, approval_notes |-> NULL,
     approval_date |-> NULL, volume |-> NoDec, length |-> NoDec,
     width |-> NoDec, height |-> NoDec]

\* A CarrierRequest row as perform_create fills it.
NewRequest(carrier, vehicle) ==
    [carrier |-> carrier, vehicle |-> vehicle, status |-> "pending",
     assigned_cargo |-> 0, assigned_by |-> NULL, assigned_at |-> NULL]

\* ModelSerializer.update: every field the request carries is set on the
\* instance, the others are left as loaded.
SetAttrs(inst, data) ==
    [f \in DOMAIN inst |-> IF f \in DOMAIN data THEN data[f] ELSE inst[f]]

\* The filter without is_active: the variant that C12_ActiveStudents has to
\* tell from the code.
UsersWithRole_any(r) ==
    SelectSeq(UserOrder, LAMBDA u : role[u] = r)

\* User.objects.filter(role=r, is_active=True), in a fixed order.
UsersWithRole(r) ==
    SelectSeq(UserOrder, LAMBDA u : role[u] = r /\ is_active(u))

\* The transaction mode of the deployment: requests run inside a transaction.
in_atomic_block == TRUE

\* send_bulk_messages.delay / send_notification.delay: the messages go on the
\* task queue, in the order given; nothing is raised to the caller.
delay(messages) == messages

\* notify_users: one message per recipient that is not None.
notify_users(recipients, via) ==
    delay([i \in 1..Len(SelectSeq(recipients, LAMBDA u : u # NULL)) |->
            [to |-> SelectSeq(recipients, LAMBDA u : u # NULL)[i], via |-> via]])

\* Notification.objects.create for each user of a list.
NotificationRows(recipients) ==
    [i \in 1..Len(recipients) |-> [to |-> recipients[i], via |-> "Notification"]]

----------------------------------------------------------------------------
(* Cargo.save and the Cargo post_save handler *)

\* Python truth of a nullable Decimal: None and 0 are both false.
Truthy(d) == d # NoDec /\ d # 0

\* cargo/models.py:427-428 and 438-439: the row save() writes.
CargoSaveRow(inst) ==
    LET v == IF Truthy(inst.length) /\ Truthy(inst.width) /\ Truthy(inst.height)
             THEN [inst EXCEPT !.volume = inst.length * inst.width * inst.height]
             ELSE inst
    IN  IF v.approved_by # NULL /\ v.approval_date = NULL
        THEN [v EXCEPT !.approval_date = STAMP]
        ELSE v

\* cargo/signals.py: notify_cargo_changes, run by post_save inside save().
\* original is the status store_original_status read before the write.
notify_cargo_changes(created, original, inst) ==
    IF in_atomic_block /\ ~created
    THEN <<>>
    ELSE IF created
    THEN IF inst.status = "pending_approval"
         THEN notify_users(UsersWithRole("manager"), "signal")
         ELSE IF inst.status = "pending"
              THEN notify_users(UsersWithRole("student"), "signal")
              ELSE <<>>
    ELSE IF original # inst.status
         THEN notify_users(<<inst.owner>>, "signal")
              \o (IF inst.status = "assigned"
                  THEN notify_users(<<inst.assigned_to>>, "signal") ELSE <<>>)
              \o notify_users(<<inst.managed_by>>, "signal")
              \o (IF inst.status = "manager_approved"
                  THEN notify_users(UsersWithRole("student"), "signal") ELSE <<>>)
         ELSE <<>>

\* cargo/models.py:446-480: the fan-out of Cargo.save after the write.
CargoSaveNotify(is_new, old_status, inst) ==
    IF is_new
    THEN IF inst.status = "pending_approval"
         THEN notify_users(UsersWithRole("manager"), "save") ELSE <<>>
    ELSE IF old_status # inst.status
         THEN IF inst.status = "manager_approved"
              THEN notify_users(UsersWithRole("student"), "save")
              ELSE IF inst.status = "assigned"
                   THEN notify_users(<<inst.assigned_to>>, "save")
                   ELSE IF inst.status \in {"completed", "cancelled"}
                        THEN notify_users(<<inst.owner, inst.approved_by>>, "save")
                        ELSE <<>>
         ELSE <<>>

\* Everything one Cargo.save() enqueues: the post_save handler runs inside
\* super().save(), the model's own fan-out after it.
CargoSaveMessages(is_new, old_status, inst) ==
    notify_cargo_changes(is_new, old_status, inst)
    \o CargoSaveNotify(is_new, old_status, inst)

----------------------------------------------------------------------------
(* Permissions and querysets *)

IsVerifiedUser(u) == is_verified(u)
IsManager(u) == role[u] = "manager"
\* The object permission that lets every requester through: the variant that
\* C14_NonOwnerDenied has to tell from the code.
IsObjectOwner_anyone(u, obj) == TRUE

IsObjectOwner(u, obj) == obj.owner = u

\* CargoViewSet.get_queryset: the pks of the cargos the user can address.
CargoQueryset(u) ==
    {c \in DOMAIN cargos :
        LET o == cargos[c] IN
        CASE role[u] = "carrier" -> o.status = "pending" \/ o.assigned_to = u
          [] role[u] = "student" ->
                IF tariff(u) = "standard"
                THEN o.status = "pending" \/ o.managed_by = u \/ o.owner = u
                ELSE IF tariff(u) = "vip"
                     THEN \/ o.status = "pending" \/ o.managed_by = u
                          \/ o.owner = u \/ o.status = "manager_approved"
                     ELSE FALSE
          [] role[u] \in {"cargo-owner", "logistics-company"} -> o.owner = u
          [] role[u] = "manager" -> TRUE
          [] OTHER -> is_staff(u)}

\* ManagerCargoViewSet.get_queryset.
ManagerQueryset(u) ==
    {c \in DOMAIN cargos :
        \/ cargos[c].status = "pending_approval"
        \/ cargos[c].approved_by = u
        \/ cargos[c].status = "manager_approved"}

\* CarrierRequestViewSet.get_queryset.
RequestQueryset(u) ==
    {r \in DOMAIN requests :
        CASE role[u] = "carrier" -> requests[r].carrier = u
          [] role[u] = "student" -> requests[r].status = "pending"
          [] OTHER -> is_staff(u)}

----------------------------------------------------------------------------
(* Status-transition tables *)

\* CargoUpdateSerializer.validate_status: valid_transitions.
valid_transitions ==
    [s \in {"draft", "pending", "assigned", "in_progress", "completed",
            "cancelled", "expired"} |->
        CASE s = "draft" -> {"pending", "cancelled"}
          [] s = "pending" -> {"assigned", "cancelled"}
          [] s = "assigned" -> {"in_progress", "cancelled"}
          [] s = "in_progress" -> {"completed", "cancelled"}
          [] s = "completed" -> {}
          [] s = "cancelled" -> {"draft"}
          [] s = "expired" -> {"draft"}]

\* validate_status without the carrier's restriction to in_progress and
\* completed: the variant that C6_CarrierUpdate has to tell from the code.
validate_status_carrier_any(u, inst, value) ==
    IF /\ role[u] = "student" /\ inst.status = "pending" /\ value = "assigned"
       /\ inst.assigned_to = NULL
    THEN "invalid"
    ELSE IF role[u] = "carrier" /\ inst.assigned_to # u
    THEN "invalid"
    ELSE IF value = inst.status
    THEN "ok"
    ELSE IF inst.status \notin DOMAIN valid_transitions
    THEN "error"
    ELSE IF value \notin valid_transitions[inst.status]
    THEN "invalid"
    ELSE "ok"

\* validate_status without the look-up in valid_transitions: the variant that
\* C1_TransitionTable has to tell from the code.
validate_status_no_table(u, inst, value) ==
    IF /\ role[u] = "student" /\ inst.status = "pending" /\ value = "assigned"
       /\ inst.assigned_to = NULL
    THEN "invalid"
    ELSE IF role[u] = "carrier" /\ inst.assigned_to # u
    THEN "invalid"
    ELSE IF role[u] = "carrier" /\ value \notin {"in_progress", "completed"}
    THEN "invalid"
    ELSE "ok"

\* CargoUpdateSerializer.validate_status: "ok", "invalid" (ValidationError) or
\* "error" (the KeyError of valid_transitions[current_status]).
validate_status(u, inst, value) ==
    IF /\ role[u] = "student" /\ inst.status = "pending" /\ value = "assigned"
       /\ inst.assigned_to = NULL
    THEN "invalid"
    ELSE IF role[u] = "carrier" /\ inst.assigned_to # u
    THEN "invalid"
    ELSE IF role[u] = "carrier" /\ value \notin {"in_progress", "completed"}
    THEN "invalid"
    ELSE IF value = inst.status
    THEN "ok"
    ELSE IF inst.status \notin DOMAIN valid_transitions
    THEN "error"
    ELSE IF value \notin valid_transitions[inst.status]
    THEN "invalid"
    ELSE "ok"

\* CarrierRequestUpdateSerializer.validate_status: valid_transitions.
request_transitions ==
    [s \in RequestStatus |->
        CASE s = "pending" -> {"cancelled"}
          [] s = "assigned" -> {"accepted", "rejected"}
          [] s = "accepted" -> {"completed", "cancelled"}
          [] s = "rejected" -> {"pending"}
          [] s = "completed" -> {}
          [] s = "cancelled" -> {"pending"}]

\* validate_status that admits every status: the variant that
\* C21_RequestTransitions has to tell from the code.
validate_request_status_any(inst, value) == TRUE

\* CarrierRequestUpdateSerializer.validate_status.
validate_request_status(inst, value) ==
    value = inst.status \/ value \in request_transitions[inst.status]

----------------------------------------------------------------------------
(* CarrierRequest.save and the CarrierRequest post_save handler *)

\* format_carrier_notification reads carrier_request.vehicle.registration_number:
\* it raises AttributeError for a request without a vehicle.
FormatRaises(req) == req.vehicle = NULL

\* The owner of the cargo a request is bound to, or NULL.
AssignedCargoOwner(req, table) ==
    IF req.assigned_cargo # 0 /\ req.assigned_cargo \in DOMAIN table
    THEN table[req.assigned_cargo].owner ELSE NULL

\* cargo/signals.py: notify_carrier_request_changes.
notify_carrier_request_changes(created, original, req, table) ==
    IF created
    THEN notify_users(UsersWithRole("student"), "cr_signal")
    ELSE IF original # req.status
         THEN notify_users(<<req.carrier, req.assigned_by>>, "cr_signal")
              \o (IF req.status = "accepted"
                  THEN notify_users(<<AssignedCargoOwner(req, table)>>, "cr_signal")
                  ELSE <<>>)
         ELSE <<>>

\* cargo/models.py:147-184: the fan-out of CarrierRequest.save after the write.
RequestSaveNotify(is_new, old_status, req, table) ==
    IF is_new
    THEN notify_users(UsersWithRole("student"), "cr_save")
    ELSE IF old_status # req.status
         THEN CASE req.status = "assigned" -> notify_users(<<req.carrier>>, "cr_save")
                [] req.status = "accepted" ->
                     notify_users(<<req.assigned_by, AssignedCargoOwner(req, table)>>,
                                  "cr_save")
                [] req.status = "rejected" ->
                     notify_users(<<req.assigned_by>>, "cr_save")
                [] req.status = "completed" ->
                     notify_users(<<req.carrier, AssignedCargoOwner(req, table)>>,
                                  "cr_save")
                [] OTHER -> <<>>
         ELSE <<>>

\* A CarrierRequest.save() raises, after its row is written, when it has a
\* message to format for a request without a vehicle.
RequestSaveRaises(is_new, old_status, req) ==
    FormatRaises(req) /\ (is_new \/ old_status # req.status)

\* Everything one CarrierRequest.save() enqueues.
RequestSaveMessages(is_new, old_status, req, table) ==
    IF RequestSaveRaises(is_new, old_status, req)
    THEN <<>>
    ELSE notify_carrier_request_changes(is_new, old_status, req, table)
         \o RequestSaveNotify(is_new, old_status, req, table)

----------------------------------------------------------------------------
(* REST operations.  The outcome of a request is a function of the database *)
(* and the request: the HTTP status, the two tables as the request leaves   *)
(* them, and what it enqueued.                                              *)

CargoIds == 1..MaxCargos
RequestIds == 1..MaxRequests

\* The views, the serializers, Cargo.save and the post_save handlers write the
\* Cargo and CarrierRequest tables and enqueue messages; none of them names
\* CargoStatusHistory, so a request leaves that table as it found it.
Outcome(code, cs, rs, out) ==
    [code |-> code, cargos |-> cs, requests |-> rs, outbox |-> out,
     history |-> history]

\* A request that is refused: nothing is written, nothing is enqueued.
Refuse(code) == Outcome(code, cargos, requests, <<>>)

\* A request in which save() raised after writing: the exception is not
\* handled, the response is 500 and the transaction of the request, when there
\* is one, is rolled back.  What was enqueued before stays enqueued.
Unhandled(raises, o) ==
    IF ~raises THEN o
    ELSE IF in_atomic_block
         THEN Outcome(500, cargos, requests, o.outbox)
         ELSE [o EXCEPT !.code = 500]

\* The request is served: its outcome becomes the state.
Serve(op, o) ==
    /\ response' = [op |-> op, code |-> o.code]
    /\ cargos' = o.cargos
    /\ requests' = o.requests
    /\ outbox' = o.outbox
    /\ history' = o.history
    /\ UNCHANGED <<role, active, accounts, body, pc, local, batch, ratings, rating, locations, location_id_seq>>

\* UserViewSet.update_profile with a role in the body.
update_profile(u, r) ==
    /\ role' = [role EXCEPT ![u] = r]
    /\ response' = [op |-> "update_profile", code |-> 200]
    /\ outbox' = <<>>
    /\ UNCHANGED <<active, accounts, body, cargos, requests, pc, local, batch, history, ratings, rating, locations, location_id_seq>>

\* CargoCreateSerializer.create: the initial status by role.
InitialStatus(u) ==
    CASE role[u] = "cargo-owner" -> "pending_approval"
      [] role[u] = "logistics-company" -> "pending"
      [] role[u] = "manager" -> "manager_approved"
      [] OTHER -> "draft"

\* CargoViewSet.get_permissions for create.
MayCreateCargo(u) ==
    IsVerifiedUser(u) /\ role[u] \in {"cargo-owner", "logistics-company", "student"}

\* perform_create: the Notification rows written after the cargo.
CreateNotificationRows(row) ==
    IF row.status = "pending_approval"
    THEN NotificationRows(UsersWithRole("manager"))
    ELSE IF row.status = "manager_approved"
         THEN NotificationRows(UsersWithRole("student"))
         ELSE <<>>

\* CargoViewSet.create with perform_create.
CargoCreateOutcome(u, data) ==
    IF ~MayCreateCargo(u) THEN Refuse(403)
    ELSE LET pk == Cardinality(DOMAIN cargos) + 1
             inst == SetAttrs(
                 [NewCargo(u, InitialStatus(u)) EXCEPT
                     !.approved_by = IF role[u] = "manager" THEN u ELSE NULL],
                 data)
             row == CargoSaveRow(inst)
         IN  Outcome(201, (pk :> row) @@ cargos, requests,
                     CargoSaveMessages(TRUE, NULL, row) \o CreateNotificationRows(row))

CargoCreate(u, data) ==
    /\ Cardinality(DOMAIN cargos) < MaxCargos
    /\ Serve("create", CargoCreateOutcome(u, data))

\* perform_update: the Notification rows written after a status change.
UpdateNotificationRows(old_status, row) ==
    IF old_status # row.status
    THEN NotificationRows(
            SelectSeq(<<row.owner, row.assigned_to, row.managed_by>>,
                      LAMBDA x : x # NULL))
    ELSE <<>>

\* CargoViewSet.update / partial_update with perform_update.
CargoUpdateOutcome(u, c, data) ==
    IF ~IsVerifiedUser(u) THEN Refuse(403)
    ELSE IF c \notin CargoQueryset(u) THEN Refuse(404)
    ELSE IF ~IsObjectOwner(u, cargos[c]) THEN Refuse(403)
    ELSE IF "status" \in DOMAIN data
            /\ validate_status(u, cargos[c], data.status) = "invalid"
    THEN Refuse(400)
    ELSE IF "status" \in DOMAIN data
            /\ validate_status(u, cargos[c], data.status) = "error"
    THEN Refuse(500)
    ELSE LET row == CargoSaveRow(SetAttrs(cargos[c], data))
             old == cargos[c].status
         IN  Outcome(200, [cargos EXCEPT ![c] = row], requests,
                     CargoSaveMessages(FALSE, old, row)
                     \o UpdateNotificationRows(old, row))

CargoUpdate(u, c, data) == Serve("update", CargoUpdateOutcome(u, c, data))

----------------------------------------------------------------------------
(* Assignment workflow *)

\* CargoAssignmentSerializer.carrier_request: the pk has to name a row of
\* CarrierRequest.objects.filter(status='pending').
CarrierRequestField(r) ==
    r \in DOMAIN requests /\ requests[r].status = "pending"

\* validate_carrier_request without the test of assigned_cargo: the variant
\* that C3_AssignRefused has to tell from the code.
validate_carrier_request_status_only(value) ==
    value.status = "pending"

\* CargoAssignmentSerializer.validate_carrier_request.
validate_carrier_request(value) ==
    IF value.status # "pending" THEN FALSE
    ELSE IF value.assigned_cargo # 0 THEN FALSE
    ELSE TRUE

\* The cargo side of the assignment without managed_by: the variant that
\* C2_AssignBothSides has to tell from the code.
AssignCargoRow_no_manager(inst, carrier_request, u) ==
    CargoSaveRow([inst EXCEPT !.status = "assigned",
                              !.assigned_to = carrier_request.carrier])

\* CargoAssignmentSerializer.update, the cargo side.
AssignCargoRow(inst, carrier_request, u) ==
    CargoSaveRow([inst EXCEPT !.status = "assigned",
                              !.assigned_to = carrier_request.carrier,
                              !.managed_by = u])

\* The carrier-request side of the assignment without the binding to the
\* cargo: the variant that C10_BothComplete has to tell from the code.
AssignRequestRow_unbound(carrier_request, c, u) ==
    [carrier_request EXCEPT !.status = "assigned", !.assigned_by = u,
                            !.assigned_at = STAMP]

\* CargoAssignmentSerializer.update, the carrier-request side.
AssignRequestRow(carrier_request, c, u) ==
    [carrier_request EXCEPT !.status = "assigned", !.assigned_cargo = c,
                            !.assigned_by = u, !.assigned_at = STAMP]

\* CargoViewSet.assign_carrier.
AssignCarrierOutcome(u, c, r) ==
    IF ~IsVerifiedUser(u) THEN Refuse(403)
    ELSE IF c \notin CargoQueryset(u) THEN Refuse(404)
    ELSE IF ~CarrierRequestField(r) THEN Refuse(400)
    ELSE IF ~validate_carrier_request(requests[r]) THEN Refuse(400)
    ELSE LET row == AssignCargoRow(cargos[c], requests[r], u)
             req == AssignRequestRow(requests[r], c, u)
             table == [cargos EXCEPT ![c] = row]
         IN  Unhandled(RequestSaveRaises(FALSE, requests[r].status, req),
                 Outcome(200, table, [requests EXCEPT ![r] = req],
                         CargoSaveMessages(FALSE, cargos[c].status, row)
                         \o RequestSaveMessages(FALSE, requests[r].status, req,
                                                table)))

assign_carrier(u, c, r) == Serve("assign_carrier", AssignCarrierOutcome(u, c, r))

\* validate without the test of the cargo's status: the variant that
\* C4_AcceptAssignment has to tell from the code.
validate_acceptance_any_status(u, inst) ==
    inst.assigned_to = u

\* CargoAcceptanceSerializer.validate.
validate_acceptance(u, inst) ==
    IF inst.assigned_to # u THEN FALSE
    ELSE IF inst.status # "assigned" THEN FALSE
    ELSE TRUE

\* instance.carrier_requests.filter(status='assigned').first(): the bound
\* request created last (Meta.ordering is -created_at), 0 when there is none.
BoundRequest(c) ==
    LET S == {r \in DOMAIN requests :
                requests[r].assigned_cargo = c /\ requests[r].status = "assigned"}
    IN  IF S = {} THEN 0 ELSE CHOOSE r \in S : \A q \in S : q <= r

\* CargoAcceptanceSerializer.update, the cargo side.
AcceptCargoRow(inst, decision) ==
    CargoSaveRow(IF decision = "accept"
                 THEN [inst EXCEPT !.status = "in_progress"]
                 ELSE [inst EXCEPT !.status = "pending", !.assigned_to = NULL])

\* CargoAcceptanceSerializer.update, the carrier-request side.
AcceptRequestRow(carrier_request, decision) ==
    IF decision = "accept"
    THEN [carrier_request EXCEPT !.status = "accepted"]
    ELSE [carrier_request EXCEPT !.status = "rejected", !.assigned_cargo = 0]

\* CargoViewSet.accept_assignment.
AcceptAssignmentOutcome(u, c, decision) ==
    IF ~IsVerifiedUser(u) THEN Refuse(403)
    ELSE IF c \notin CargoQueryset(u) THEN Refuse(404)
    ELSE IF ~validate_acceptance(u, cargos[c]) THEN Refuse(400)
    ELSE LET r == BoundRequest(c)
             row == AcceptCargoRow(cargos[c], decision)
             table == [cargos EXCEPT ![c] = row]
         IN  IF r = 0
             THEN Outcome(200, table, requests,
                          CargoSaveMessages(FALSE, cargos[c].status, row))
             ELSE LET req == AcceptRequestRow(requests[r], decision)
                  IN  Unhandled(RequestSaveRaises(FALSE, requests[r].status, req),
                          Outcome(200, table, [requests EXCEPT ![r] = req],
                                  CargoSaveMessages(FALSE, cargos[c].status, row)
                                  \o RequestSaveMessages(FALSE, requests[r].status,
                                                         req, table)))

accept_assignment(u, c, decision) == Serve("accept_assignment", AcceptAssignmentOutcome(u, c, decision))

----------------------------------------------------------------------------
(* Approval workflow *)

Notes == {NULL, "note"}

\* Cargo.approve / Cargo.reject: the role check of the model method.
ManagerCheck(manager) == role[manager] = "manager"

\* approve / reject that drop the notes: the variant that C5_ManagerDecision
\* has to tell from the code.
Decide_no_notes(inst, manager, notes, status) ==
    [inst EXCEPT !.status = status, !.approved_by = manager,
                 !.approval_date = STAMP]

\* Cargo.approve and Cargo.reject up to save(): the instance handed to save().
Decide(inst, manager, notes, status) ==
    [inst EXCEPT !.status = status, !.approved_by = manager,
                 !.approval_notes = notes, !.approval_date = STAMP]

\* ManagerCargoViewSet.approve (status manager_approved, via "approve") and
\* ManagerCargoViewSet.reject (status rejected, via "reject").
ManagerDecisionOutcome(u, c, notes, status, via) ==
    IF ~IsManager(u) THEN Refuse(403)
    ELSE IF c \notin ManagerQueryset(u) THEN Refuse(404)
    ELSE IF ~ManagerCheck(u) THEN Refuse(400)
    ELSE LET row == CargoSaveRow(Decide(cargos[c], u, notes, status))
         IN  Outcome(200, [cargos EXCEPT ![c] = row], requests,
                     CargoSaveMessages(FALSE, cargos[c].status, row)
                     \o notify_users(<<row.owner>>, via))

ApproveOutcome(u, c, notes) ==
    ManagerDecisionOutcome(u, c, notes, "manager_approved", "approve")

RejectOutcome(u, c, notes) ==
    ManagerDecisionOutcome(u, c, notes, "rejected", "reject")

approve(u, c, notes) == Serve("approve", ApproveOutcome(u, c, notes))

reject(u, c, notes) == Serve("reject", RejectOutcome(u, c, notes))

----------------------------------------------------------------------------
(* Carrier requests *)

\* CarrierRequestCreateSerializer.validate_vehicle.
validate_vehicle(u, value) == VehicleOwner(value) = u

\* CarrierRequestViewSet.create with perform_create; vehicle is NULL when the
\* body names none.
CarrierRequestCreateOutcome(u, vehicle) ==
    IF ~IsVerifiedUser(u) THEN Refuse(403)
    ELSE IF vehicle # NULL /\ ~validate_vehicle(u, vehicle) THEN Refuse(400)
    ELSE LET pk == Cardinality(DOMAIN requests) + 1
             req == NewRequest(u, vehicle)
         IN  Unhandled(RequestSaveRaises(TRUE, NULL, req),
                 Outcome(201, cargos, (pk :> req) @@ requests,
                         RequestSaveMessages(TRUE, NULL, req, cargos)))

CarrierRequestCreate(u, vehicle) ==
    /\ Cardinality(DOMAIN requests) < MaxRequests
    /\ Serve("request_create", CarrierRequestCreateOutcome(u, vehicle))

\* CarrierRequestViewSet.update / partial_update with a status in the body.
CarrierRequestUpdateOutcome(u, r, value) ==
    IF ~IsVerifiedUser(u) THEN Refuse(403)
    ELSE IF r \notin RequestQueryset(u) THEN Refuse(404)
    ELSE IF ~validate_request_status(requests[r], value) THEN Refuse(400)
    ELSE LET req == [requests[r] EXCEPT !.status = value]
         IN  Unhandled(RequestSaveRaises(FALSE, requests[r].status, req),
                 Outcome(200, cargos, [requests EXCEPT ![r] = req],
                         RequestSaveMessages(FALSE, requests[r].status, req,
                                             cargos)))

CarrierRequestUpdate(u, r, value) == Serve("request_update", CarrierRequestUpdateOutcome(u, r, value))

----------------------------------------------------------------------------
(* The REST specification: requests served one at a time *)

\* The roles the model lets each user take: u1 every role but manager, u2
\* student or manager.
ProfileRoles(u) == IF u = "u1" THEN Roles \ {"manager"} ELSE {"student", "manager"}

InitDb ==
    /\ cargos = <<>>
    /\ requests = <<>>
    /\ response = [op |-> "none", code |-> 0]
    /\ outbox = <<>>

InitIdle ==
    /\ pc = <<>>
    /\ local = <<>>
    /\ batch = <<>>
    /\ history = <<>>

Init ==
    /\ role \in {f \in [Users -> Roles] : \A u \in Users : f[u] \in ProfileRoles(u)}
    /\ active = Users
    /\ accounts = Users
    /\ ratings = {}
    /\ locations = {}
    /\ location_id_seq = 1
    /\ rating = [u \in RatingUsers |-> 0]
    /\ body = <<>>
    /\ InitDb
    /\ InitIdle

StatusData == {[status |-> s] : s \in CargoStatus}

Next ==
    \/ \E u \in Users : \E r \in ProfileRoles(u) : update_profile(u, r)
    \/ \E u \in Users : CargoCreate(u, <<>>)
    \/ \E u \in Users, c \in CargoIds, d \in StatusData : CargoUpdate(u, c, d)
    \/ \E u \in Users, c \in CargoIds, r \in RequestIds : assign_carrier(u, c, r)
    \/ \E u \in Users, c \in CargoIds, d \in {"accept", "reject"} :
          accept_assignment(u, c, d)
    \/ \E u \in Users, c \in CargoIds, n \in Notes : approve(u, c, n)
    \/ \E u \in Users, c \in CargoIds, n \in Notes : reject(u, c, n)
    \/ \E u \in Users, v \in Vehicles : CarrierRequestCreate(u, v)
    \/ \E u \in Users, r \in RequestIds, s \in RequestStatus :
          CarrierRequestUpdate(u, r, s)

Spec == Init /\ [][Next]_vars

----------------------------------------------------------------------------
(* The REST specification together with the admin site.  A staff user of   *)
(* the admin (not one of Users) edits the status of a cargo in the change  *)
(* form: CargoAdmin.save_model ends in obj.save().  This is the only way a *)
(* cargo comes to be expired: check_expired_cargos selects status 'active',*)
(* which no cargo has.                                                     *)

\* CargoStatusHistory.objects.create: the row, and the message its save()
\* sends to the owner of the cargo.
HistoryRow(c, status, changed_by) ==
    [cargo |-> c, status |-> status, changed_by |-> changed_by]

save_model(c, status) ==
    /\ c \in DOMAIN cargos
    /\ status # cargos[c].status => Len(history) < MaxHistory
    /\ LET row == CargoSaveRow([cargos[c] EXCEPT !.status = status])
           changed == status # cargos[c].status
       IN  /\ cargos' = [cargos EXCEPT ![c] = row]
           /\ history' = IF changed
                         THEN Append(history, HistoryRow(c, status, "admin"))
                         ELSE history
           /\ outbox' = (IF changed
                         THEN <<[to |-> cargos[c].owner, via |-> "history"]>>
                         ELSE <<>>)
                        \o CargoSaveMessages(FALSE, cargos[c].status, row)
    /\ response' = [op |-> "save_model", code |-> 302]
    /\ UNCHANGED <<role, active, accounts, body, requests, pc, local, batch, ratings, rating, locations, location_id_seq>>

\* The statuses the staff user of the model sets: the one no request sets.
AdminStatus == {"expired"}

NextAdmin ==
    \/ Next
    \/ \E c \in CargoIds, s \in AdminStatus : save_model(c, s)

SpecAdmin == Init /\ [][NextAdmin]_vars

----------------------------------------------------------------------------
(* Properties of the cargo update operation *)

\* The transition table as the specification states it.
C1Allowed(s) ==
    CASE s = "draft" -> {"pending", "cancelled"}
      [] s = "pending" -> {"assigned", "cancelled"}
      [] s = "assigned" -> {"in_progress", "cancelled"}
      [] s = "in_progress" -> {"completed", "cancelled"}
      [] s = "completed" -> {}
      [] s = "cancelled" -> {"draft"}
      [] s = "expired" -> {"draft"}

C1Listed ==
    {"draft", "pending", "assigned", "in_progress", "completed", "cancelled",
     "expired"}

\* C1: whatever the requester and its role, an update that asks for a status t
\* different from the current status s of the cargo and outside the allowed
\* set of s is answered with a client error (400, 403 or 404) and leaves the
\* Cargo table, hence the stored status s, as it was; s ranges over the seven
\* statuses the table lists.
C1_TransitionTable ==
    \A u \in Users, c \in DOMAIN cargos, t \in CargoStatus :
        LET s == cargos[c].status
            o == CargoUpdateOutcome(u, c, [status |-> t])
        IN  (s \in C1Listed /\ t # s /\ t \notin C1Allowed(s))
            => /\ o.code \in {400, 403, 404}
               /\ o.cargos = cargos
               /\ o.cargos[c].status = s

\* C1 happens: the owner of an expired cargo, who can address it and passes the
\* role checks of validate_status, has just been refused a status outside the
\* table by the table.
C1_Witness ==
    /\ response = [op |-> "update", code |-> 400]
    /\ \E u \in Users, c \in DOMAIN cargos :
          /\ cargos[c].status = "expired"
          /\ cargos[c].owner = u
          /\ c \in CargoQueryset(u)
          /\ role[u] # "carrier"
          /\ \E t \in CargoStatus \ {"expired", "draft"} :
                CargoUpdateOutcome(u, c, [status |-> t]).code = 400

----------------------------------------------------------------------------
(* Properties of the assignment workflow *)

C3_AssignRefused ==
    \A u \in Users, c \in DOMAIN cargos, r \in DOMAIN requests :
        LET o == AssignCarrierOutcome(u, c, r)
        IN  (requests[r].assigned_cargo # 0 \/ requests[r].status # "pending")
            => /\ o.code \in {400, 403, 404}
               /\ o.cargos = cargos
               /\ o.requests = requests

\* C3 happens: a request that is pending again but still bound to a cargo has
\* just been named in an assignment by a user who can address a cargo, and
\* the assignment was refused.
C3_Witness ==
    /\ response = [op |-> "assign_carrier", code |-> 400]
    /\ \E u \in Users, c \in DOMAIN cargos, r \in DOMAIN requests :
          /\ c \in CargoQueryset(u)
          /\ requests[r].status = "pending"
          /\ requests[r].assigned_cargo # 0

\* The carrier requests bound to cargo c in status assigned.
C4Bound(c) ==
    {r \in DOMAIN requests :
        requests[r].assigned_cargo = c /\ requests[r].status = "assigned"}

----------------------------------------------------------------------------
(* Properties of the approval workflow *)

----------------------------------------------------------------------------
(* Properties of the carrier's status updates *)

\* C6: a status update requested by a user whose role is carrier succeeds only
\* if the cargo's assigned_to is the requester and the requested status is
\* in_progress or completed; every other status update of a carrier is
\* answered with a client error and leaves the Cargo table unchanged.
C6_CarrierUpdate ==
    \A u \in Users, c \in DOMAIN cargos, t \in CargoStatus :
        LET o == CargoUpdateOutcome(u, c, [status |-> t])
            admissible == /\ cargos[c].assigned_to = u
                          /\ t \in {"in_progress", "completed"}
        IN  role[u] = "carrier"
            => /\ o.code = 200 => admissible
               /\ ~admissible => /\ o.code \in {400, 403, 404}
                                 /\ o.cargos = cargos
                                 /\ o.cargos[c].status = cargos[c].status

\* C6 happens: the owner of the cargo, whose role is carrier and who is the
\* cargo's assigned_to, has just moved it to in_progress.
C6_Witness ==
    /\ response = [op |-> "update", code |-> 200]
    /\ \E u \in Users, c \in DOMAIN cargos :
          /\ role[u] = "carrier"
          /\ cargos[c].owner = u
          /\ cargos[c].assigned_to = u
          /\ cargos[c].status = "in_progress"
          /\ \A v \in Users \ {u} : cargos[c].owner # v

----------------------------------------------------------------------------
(* The dimensions of a cargo: create and update with length, width, height *)
(* and volume in the body, each absent, null or a number.                  *)

DimValues == (0..MaxDim) \cup {NoDec}

\* Every body that names some of the four fields.
DimData == UNION {[S -> DimValues] : S \in SUBSET DimFields}

InitVolume ==
    /\ role = [u \in Users |-> IF u = "u1" THEN "logistics-company" ELSE "student"]
    /\ active = Users
    /\ accounts = Users
    /\ ratings = {}
    /\ locations = {}
    /\ location_id_seq = 1
    /\ rating = [u \in RatingUsers |-> 0]
    /\ body = <<>>
    /\ InitDb
    /\ InitIdle

NextVolume ==
    \/ \E u \in Users, d \in DimData : CargoCreate(u, d)
    \/ \E u \in Users, c \in CargoIds, d \in DimData : CargoUpdate(u, c, d)

SpecVolume == InitVolume /\ [][NextVolume]_vars

\* C7: every cargo row persisted by create or update whose length, width and
\* height are all non-null has volume = length * width * height, whatever
\* volume the request carried.
C7_VolumeIsProduct ==
    \A c \in DOMAIN cargos :
        (/\ cargos[c].length # NoDec
         /\ cargos[c].width # NoDec
         /\ cargos[c].height # NoDec)
        => cargos[c].volume = cargos[c].length * cargos[c].width * cargos[c].height

----------------------------------------------------------------------------
(* External ingestion: ExternalCargoViewSet.create_external                *)
(*                                                                         *)
(* A JSON value of the body is a record [t, v]: t is "str", "num" or       *)
(* "null" (the key is absent) and v is the text of the value as a sequence *)
(* of characters.  An order is a JSON object, of which the model keeps     *)
(* what decides whether Cargo.objects.create raises, or a JSON string.     *)
(* The body of the last batch is kept in batch, with the orders sent.      *)

Str(chars) == [t |-> "str", v |-> chars]
Num(digits) == [t |-> "num", v |-> digits]
Absent == [t |-> "null", v |-> <<>>]

\* Python truth of a JSON value: None, "" and 0 are false.
TruthyJson(x) ==
    /\ x.t # "null"
    /\ x.v # <<>>
    /\ ~(x.t = "num" /\ x.v = <<"0">>)

\* settings.PRIVATE_API_KEY.
PRIVATE_API_KEY == <<"k">>

\* hashlib.md5(text).hexdigest(): a digest determined by the text, different
\* texts having different digests.
md5(text) == <<"md5:">> \o text

\* private_key + api_key + str(created_at); api_key has to be a str.
HashInput(api_key, created_at) == PRIVATE_API_KEY \o api_key.v \o created_at.v

ObjectOrders ==
    [json : {"object"}, weight : {"absent", "number"}, status : {"absent", "draft"}]

StringOrder == [json |-> "string", weight |-> "absent", status |-> "absent"]

Orders == ObjectOrders \cup {StringOrder}

\* _convert_data_types: data.items() raises AttributeError for an order that
\* is no object.
ConvertRaises(order) == order.json # "object"

\* Cargo.objects.create(status='pending', **cleaned_data): TypeError when the
\* order carries a status of its own, IntegrityError when it has no weight.
CreateRaises(order) == order.status # "absent" \/ order.weight = "absent"

\* The handler of the per-order try: order_data.get raises AttributeError for
\* an order that is no object.
HandlerRaises(order) == order.json # "object"

\* The loop over the orders from position i on.  acc holds the Cargo table,
\* the messages enqueued, the two lists of the body as counts and whether an
\* exception left the loop.
RECURSIVE ProcessOrders(_, _, _)
ProcessOrders(orders, i, acc) ==
    IF i > Len(orders) \/ acc.escaped
    THEN acc
    ELSE LET order == orders[i]
         IN  IF ConvertRaises(order) \/ CreateRaises(order)
             THEN IF HandlerRaises(order)
                  THEN [acc EXCEPT !.escaped = TRUE]
                  ELSE ProcessOrders(orders, i + 1,
                                     [acc EXCEPT !.errors = @ + 1])
             ELSE LET pk == Cardinality(DOMAIN acc.cargos) + 1
                      row == CargoSaveRow(NewCargo(NULL, "pending"))
                  IN  ProcessOrders(orders, i + 1,
                          [acc EXCEPT !.cargos = (pk :> row) @@ acc.cargos,
                                      !.created = @ + 1,
                                      !.outbox = @ \o CargoSaveMessages(TRUE, NULL, row)])

\* The comparison of the digests without the comparison: the variant that
\* C8_BadHashRefused has to tell from the code.
HashMatches_unchecked(api_key, created_at, received_hash) == TRUE

\* calculated_hash != received_hash, negated.
HashMatches(api_key, created_at, received_hash) ==
    md5(HashInput(api_key, created_at)) = received_hash.v

\* create_external: the HTTP status, the Cargo table and the body.
IngestOutcome(api_key, created_at, received_hash, orders) ==
    LET none == [code |-> 400, cargos |-> cargos, outbox |-> <<>>,
                 created |-> 0, errors |-> 0]
    IN  IF ~(/\ TruthyJson(api_key) /\ TruthyJson(created_at)
             /\ TruthyJson(received_hash) /\ orders # <<>>)
        THEN none
        ELSE IF api_key.t # "str"
        THEN none
        ELSE IF ~HashMatches(api_key, created_at, received_hash)
        THEN [none EXCEPT !.code = 401]
        ELSE LET acc == ProcessOrders(orders, 1,
                            [cargos |-> cargos, outbox |-> <<>>, created |-> 0,
                             errors |-> 0, escaped |-> FALSE])
             IN  [code |-> IF acc.escaped THEN 400 ELSE 201,
                  cargos |-> acc.cargos, outbox |-> acc.outbox,
                  created |-> IF acc.escaped THEN 0 ELSE acc.created,
                  errors |-> IF acc.escaped THEN 0 ELSE acc.errors]

create_external(api_key, created_at, received_hash, orders) ==
    LET o == IngestOutcome(api_key, created_at, received_hash, orders)
    IN  /\ Cardinality(DOMAIN cargos) + Len(orders) <= 2 * MaxOrders
        /\ response' = [op |-> "create_external", code |-> o.code]
        /\ cargos' = o.cargos
        /\ outbox' = o.outbox
        /\ batch' = [orders |-> orders, created |-> o.created, errors |-> o.errors,
                     authentic |-> /\ api_key.t = "str"
                                   /\ HashMatches(api_key, created_at,
                                                  received_hash)]
        /\ UNCHANGED <<role, active, accounts, body, requests, pc, local, history, ratings, rating, locations, location_id_seq>>

\* The bodies the model sends.
ApiKeys == {Str(<<"a">>), Num(<<"7">>), Absent}
CreatedAts == {Str(<<"c">>), Num(<<"1">>), Num(<<"0">>)}
Hashes ==
    {Str(md5(HashInput(Str(<<"a">>), Num(<<"1">>)))),
     Str(md5(HashInput(Num(<<"7">>), Num(<<"1">>)))), Str(<<"x">>), Absent}
Batches == UNION {[1..n -> Orders] : n \in 0..MaxOrders}

InitIngest ==
    /\ role = [u \in Users |-> IF u = "u1" THEN "student" ELSE "manager"]
    /\ active = Users
    /\ accounts = Users
    /\ ratings = {}
    /\ locations = {}
    /\ location_id_seq = 1
    /\ rating = [u \in RatingUsers |-> 0]
    /\ body = <<>>
    /\ InitDb
    /\ InitIdle

NextIngest ==
    \E a \in ApiKeys, c \in CreatedAts, h \in Hashes, orders \in Batches :
        create_external(a, c, h, orders)

SpecIngest == InitIngest /\ [][NextIngest]_vars

----------------------------------------------------------------------------
(* Properties of the external ingestion *)

\* A body whose api_key, created_at and hash are present, api_key and hash
\* being strings, and whose hash is not the digest of the three parts.
C8WrongHash(a, c, h) ==
    /\ a.t = "str" /\ TruthyJson(a)
    /\ TruthyJson(c)
    /\ h.t = "str" /\ TruthyJson(h)
    /\ h.v # md5(PRIVATE_API_KEY \o a.v \o c.v)

C9Good(order) ==
    order.json = "object" /\ order.weight = "number" /\ order.status = "absent"

RECURSIVE C9Count(_, _)
\* The number of orders of a batch that satisfy / do not satisfy C9Good.
C9Count(orders, good) ==
    IF orders = <<>> THEN 0
    ELSE (IF C9Good(Head(orders)) = good THEN 1 ELSE 0) + C9Count(Tail(orders), good)

\* What C9 asks of a batch whose hash is right.
C9Independent(a, c, h, orders) ==
    LET o == IngestOutcome(a, c, h, orders)
        n == Cardinality(DOMAIN cargos)
    IN  /\ o.code = 201
        /\ o.errors = C9Count(orders, FALSE)
        /\ o.created = C9Count(orders, TRUE)
        /\ o.created + o.errors = Len(orders)
        /\ DOMAIN o.cargos = 1..(n + o.created)
        /\ \A k \in DOMAIN cargos : o.cargos[k] = cargos[k]
        /\ \A k \in (n + 1)..(n + o.created) : o.cargos[k].status = "pending"

C9Authentic(a, c, h, orders) ==
    /\ a.t = "str" /\ TruthyJson(a) /\ TruthyJson(c) /\ TruthyJson(h)
    /\ orders # <<>>
    /\ h.v = md5(PRIVATE_API_KEY \o a.v \o c.v)

\* C9: in a batch whose hash is right every order is processed on its own: a
\* failing order adds one entry to the error list and neither prevents nor
\* undoes the creation of the others, created plus errors is the number of
\* orders, and every cargo created is pending.
C9_OrdersIndependent ==
    \A a \in ApiKeys, c \in CreatedAts, h \in Hashes, orders \in Batches :
        C9Authentic(a, c, h, orders) => C9Independent(a, c, h, orders)

\* C9 for the batches all of whose orders are JSON objects.
C9_ObjectOrdersIndependent ==
    \A a \in ApiKeys, c \in CreatedAts, h \in Hashes, orders \in Batches :
        (/\ C9Authentic(a, c, h, orders)
         /\ \A i \in DOMAIN orders : orders[i].json = "object")
        => C9Independent(a, c, h, orders)

----------------------------------------------------------------------------
(* Concurrent assignment: two assign_carrier requests in flight.  Each     *)
(* request loads its cargo and the carrier request and validates them,     *)
(* then saves the cargo, then saves the carrier request; the database may  *)
(* serve the other request between any two of these steps.  Both saves     *)
(* write the instance the request loaded, with the assignment applied.     *)
(* There is no select_for_update and no version column.  The schedules in  *)
(* which the two saves of a request are adjacent are those of two          *)
(* transactions that commit one after the other.                           *)

Procs == {"p1", "p2"}
RaceCargos == {1, 2}

InitRace ==
    /\ role = [u \in Users |-> IF u = "u1" THEN "carrier" ELSE "student"]
    /\ active = Users
    /\ accounts = Users
    /\ ratings = {}
    /\ locations = {}
    /\ location_id_seq = 1
    /\ rating = [u \in RatingUsers |-> 0]
    /\ body = <<>>
    /\ cargos = [c \in RaceCargos |-> NewCargo("u1", "pending")]
    /\ requests = <<NewRequest("u1", "v1")>>
    /\ response = [op |-> "none", code |-> 0]
    /\ outbox = <<>>
    /\ pc = [p \in Procs |-> "idle"]
    /\ local = [p \in Procs |-> <<>>]
    /\ batch = <<>>
    /\ history = <<>>

\* get_object and serializer.is_valid: the request is refused, or it holds
\* the cargo and the carrier request as it has just read them.
RaceValidate(p, u, c, r) ==
    /\ pc[p] = "idle"
    /\ LET o == AssignCarrierOutcome(u, c, r)
       IN  IF o.code \in {400, 403, 404}
           THEN /\ pc' = [pc EXCEPT ![p] = "refused"]
                /\ response' = [op |-> "assign_carrier", code |-> o.code]
                /\ UNCHANGED local
           ELSE /\ pc' = [pc EXCEPT ![p] = "validated"]
                /\ local' = [local EXCEPT ![p] =
                                [user |-> u, pk |-> c, request |-> r,
                                 instance |-> cargos[c],
                                 carrier_request |-> requests[r]]]
                /\ UNCHANGED response
    /\ UNCHANGED <<role, active, accounts, body, cargos, requests, outbox, batch, history, ratings, rating, locations, location_id_seq>>

\* instance.save() of CargoAssignmentSerializer.update.
RaceSaveCargo(p) ==
    /\ pc[p] = "validated"
    /\ LET l == local[p]
           row == AssignCargoRow(l.instance, l.carrier_request, l.user)
       IN  /\ cargos' = [cargos EXCEPT ![l.pk] = row]
           /\ outbox' = CargoSaveMessages(FALSE, cargos[l.pk].status, row)
    /\ pc' = [pc EXCEPT ![p] = "cargo_saved"]
    /\ UNCHANGED <<role, active, accounts, body, requests, response, local, batch, history, ratings, rating, locations, location_id_seq>>

\* carrier_request.save() of CargoAssignmentSerializer.update, and the response.
RaceSaveRequest(p) ==
    /\ pc[p] = "cargo_saved"
    /\ LET l == local[p]
           req == AssignRequestRow(l.carrier_request, l.pk, l.user)
           old == requests[l.request].status
       IN  /\ requests' = [requests EXCEPT ![l.request] = req]
           /\ outbox' = RequestSaveMessages(FALSE, old, req, cargos)
           /\ response' = [op |-> "assign_carrier",
                           code |-> IF RequestSaveRaises(FALSE, old, req)
                                    THEN 500 ELSE 200]
    /\ pc' = [pc EXCEPT ![p] = "done"]
    /\ UNCHANGED <<role, active, accounts, body, cargos, local, batch, history, ratings, rating, locations, location_id_seq>>

NextRace ==
    \/ \E p \in Procs, u \in Users, c \in RaceCargos, r \in RequestIds :
          RaceValidate(p, u, c, r)
    \/ \E p \in Procs : RaceSaveCargo(p)
    \/ \E p \in Procs : RaceSaveRequest(p)

SpecRace == InitRace /\ [][NextRace]_vars

\* Two attempts that validated the same carrier request for two different
\* cargos and have both completed.
C10BothDone(p, q) ==
    /\ pc[p] = "done" /\ pc[q] = "done"
    /\ local[p].request = local[q].request
    /\ local[p].pk # local[q].pk

----------------------------------------------------------------------------
(* Properties of the status history *)

\* The outcomes of the five operations that change the status of a cargo, for
\* every requester and every body of the model.
C11Outcomes ==
    {CargoUpdateOutcome(u, c, d) : u \in Users, c \in DOMAIN cargos, d \in StatusData}
    \cup {AssignCarrierOutcome(u, c, r) :
             u \in Users, c \in DOMAIN cargos, r \in DOMAIN requests}
    \cup {AcceptAssignmentOutcome(u, c, d) :
             u \in Users, c \in DOMAIN cargos, d \in {"accept", "reject"}}
    \cup {ApproveOutcome(u, c, n) : u \in Users, c \in DOMAIN cargos, n \in Notes}
    \cup {RejectOutcome(u, c, n) : u \in Users, c \in DOMAIN cargos, n \in Notes}

\* The rows the history table held before are all there afterwards, unchanged.
C11Kept(o) ==
    /\ Len(o.history) >= Len(history)
    /\ SubSeq(o.history, 1, Len(history)) = history

\* C11: each of update, assign_carrier, accept_assignment, approve and reject
\* that changes the status of a cargo appends one CargoStatusHistory row
\* carrying the cargo and its new status, and leaves the rows already there
\* unmodified.
C11_HistoryAppended ==
    \A o \in C11Outcomes :
        /\ C11Kept(o)
        /\ \A c \in DOMAIN cargos :
              o.cargos[c].status # cargos[c].status
              => /\ Len(o.history) = Len(history) + 1
                 /\ o.history[Len(o.history)].cargo = c
                 /\ o.history[Len(o.history)].status = o.cargos[c].status

\* The part of C11 about the rows already there: the five operations neither
\* modify nor remove a history row.
C11_HistoryKept ==
    \A o \in C11Outcomes : C11Kept(o)

----------------------------------------------------------------------------
(* Approval with deactivated users *)

\* CustomUserAdmin change form: the Status fieldset sets is_active.
CustomUserAdmin_save(u, b) ==
    /\ active' = IF b THEN active \cup {u} ELSE active \ {u}
    /\ response' = [op |-> "user_admin", code |-> 302]
    /\ outbox' = <<>>
    /\ UNCHANGED <<role, accounts, body, cargos, requests, pc, local, batch, history, ratings, rating, locations, location_id_seq>>

\* Users create cargos, change their role and managers approve, while the
\* admin switches users on and off.  A deactivated user does not authenticate
\* (users/auth.py:56), so requesters are active users.
NextApprove ==
    \/ \E u \in active, r \in Roles : update_profile(u, r)
    \/ \E u \in active : CargoCreate(u, <<>>)
    \/ \E u \in active, c \in CargoIds, n \in Notes : approve(u, c, n)
    \/ \E u \in Users, b \in BOOLEAN : CustomUserAdmin_save(u, b)

SpecApprove == Init /\ [][NextApprove]_vars

\* The users a list of messages is addressed to.
Recipients(out) == {out[i].to : i \in DOMAIN out}

\* An active manager approving a cargo that is pending approval.
C12Case(u, c) ==
    /\ u \in active /\ role[u] = "manager"
    /\ c \in DOMAIN cargos /\ cargos[c].status = "pending_approval"

C12_InactiveCase ==
    \E u \in Users, c \in CargoIds, v \in Users :
        C12Case(u, c) /\ role[v] = "student" /\ v \notin active /\ v # cargos[c].owner

----------------------------------------------------------------------------
(* matching_carriers *)

\* Place names: strings over a small alphabet with one letter in both cases.
Chars == {"a", "A", "b"}
Points == UNION {[1..n -> Chars] : n \in 1..MaxPoint}
CargoPoints == UNION {[1..n -> Chars] : n \in 1..MaxNeedle}
Dates == 1..MaxDate

\* SQL UPPER on a string.
UPPER(text) ==
    [i \in DOMAIN text |->
        CASE text[i] = "a" -> "A" [] text[i] = "b" -> "B" [] OTHER -> text[i]]

\* SQL LIKE '%pattern%' with the pattern's wildcards escaped.
LIKE(text, pattern) ==
    \E k \in 0..(Len(text) - Len(pattern)) :
        SubSeq(text, k + 1, k + Len(pattern)) = pattern

\* The lookup column__icontains=value: UPPER(column) LIKE UPPER('%value%').
icontains(column, value) == LIKE(UPPER(column), UPPER(value))

\* icontains that compares the strings as they are: the variant that
\* C13_MatchingCarriers has to tell from the code.
matching_requests_case_sensitive(cargo) ==
    {r \in DOMAIN requests :
        /\ requests[r].status = "pending"
        /\ requests[r].ready_date <= cargo.loading_date
        /\ LIKE(requests[r].loading_point, cargo.loading_point)
        /\ LIKE(requests[r].unloading_point, cargo.unloading_point)}

\* CarrierRequest.objects.filter(status='pending', ready_date__lte=...,
\* loading_point__icontains=..., unloading_point__icontains=...).
matching_requests(cargo) ==
    {r \in DOMAIN requests :
        /\ requests[r].status = "pending"
        /\ requests[r].ready_date <= cargo.loading_date
        /\ icontains(requests[r].loading_point, cargo.loading_point)
        /\ icontains(requests[r].unloading_point, cargo.unloading_point)}

\* A queryset as the list the serializer walks: ascending pk here, each row
\* of the set once.
RECURSIVE AsList(_)
AsList(S) ==
    IF S = {} THEN <<>>
    ELSE LET r == CHOOSE x \in S : \A y \in S : x <= y
         IN  <<r>> \o AsList(S \ {r})

\* CargoViewSet.matching_carriers: status code and the pks listed.
MatchingCarriersOutcome(u, c) ==
    IF ~IsVerifiedUser(u) THEN [code |-> 403, data |-> <<>>]
    ELSE IF c \notin CargoQueryset(u) THEN [code |-> 404, data |-> <<>>]
    ELSE [code |-> 200, data |-> AsList(matching_requests(cargos[c]))]

matching_carriers(u, c) ==
    /\ response' = [op |-> "matching_carriers", code |-> MatchingCarriersOutcome(u, c).code]
    /\ body' = MatchingCarriersOutcome(u, c).data
    /\ outbox' = <<>>
    /\ UNCHANGED <<role, active, accounts, cargos, requests, pc, local, batch, history, ratings, rating, locations, location_id_seq>>

\* CargoViewSet.create with the route and the loading date in the body.
MatchCargoCreate(u, lp, up, d) ==
    /\ Cardinality(DOMAIN cargos) < MaxCargos
    /\ MayCreateCargo(u)
    /\ LET pk == Cardinality(DOMAIN cargos) + 1
           row == [loading_point |-> lp, unloading_point |-> up, loading_date |-> d]
                  @@ CargoSaveRow(NewCargo(u, InitialStatus(u)))
       IN  /\ cargos' = (pk :> row) @@ cargos
           /\ outbox' = CargoSaveMessages(TRUE, NULL, row) \o CreateNotificationRows(row)
    /\ response' = [op |-> "create", code |-> 201]
    /\ UNCHANGED <<role, active, accounts, body, requests, pc, local, batch, history, ratings, rating, locations, location_id_seq>>

\* CarrierRequestViewSet.create with the route and the ready date in the body.
MatchRequestCreate(u, v, lp, up, d) ==
    /\ Cardinality(DOMAIN requests) < MaxRequests
    /\ CarrierRequestCreateOutcome(u, v).code = 201
    /\ LET pk == Cardinality(DOMAIN requests) + 1
           row == [loading_point |-> lp, unloading_point |-> up, ready_date |-> d]
                  @@ NewRequest(u, v)
       IN  /\ requests' = (pk :> row) @@ requests
           /\ outbox' = RequestSaveMessages(TRUE, NULL, row, cargos)
    /\ response' = [op |-> "request_create", code |-> 201]
    /\ UNCHANGED <<role, active, accounts, body, cargos, pc, local, batch, history, ratings, rating, locations, location_id_seq>>

InitMatch ==
    /\ role = [u \in Users |-> IF u = "u1" THEN "logistics-company" ELSE "carrier"]
    /\ active = Users
    /\ accounts = Users
    /\ ratings = {}
    /\ locations = {}
    /\ location_id_seq = 1
    /\ rating = [u \in RatingUsers |-> 0]
    /\ body = <<>>
    /\ InitDb
    /\ InitIdle

NextMatch ==
    \/ \E u \in Users, lp \in CargoPoints, up \in CargoPoints, d \in Dates :
          MatchCargoCreate(u, lp, up, d)
    \/ \E u \in Users, v \in Vehicles, lp \in Points, up \in Points, d \in Dates :
          MatchRequestCreate(u, v, lp, up, d)
    \/ \E u \in Users, r \in RequestIds, st \in {"pending", "cancelled"} :
          CarrierRequestUpdate(u, r, st)
    \/ \E u \in Users, c \in CargoIds : matching_carriers(u, c)

SpecMatch == InitMatch /\ [][NextMatch]_vars

\* Two characters that are the same letter, whatever their case.
SameLetter(x, y) == x = y \/ {x, y} = {"a", "A"}

\* text contains part as a substring when case is ignored.
ContainsIgnoringCase(text, part) ==
    \E k \in 0..(Len(text) - Len(part)) :
        \A i \in 1..Len(part) : SameLetter(text[k + i], part[i])

\* C13: for a cargo C the requester can address, matching_carriers returns
\* exactly the carrier requests R (each once) with R.status = pending,
\* R.ready_date <= C.loading_date, R.loading_point containing C.loading_point
\* and R.unloading_point containing C.unloading_point, case ignored.
C13_MatchingCarriers ==
    \A u \in Users : \A c \in CargoQueryset(u) :
        LET o == MatchingCarriersOutcome(u, c)
            C == cargos[c]
        IN  /\ o.code = 200
            /\ \A i, j \in DOMAIN o.data : o.data[i] = o.data[j] => i = j
            /\ {o.data[i] : i \in DOMAIN o.data}
               = {r \in DOMAIN requests :
                    /\ requests[r].status = "pending"
                    /\ requests[r].ready_date <= C.loading_date
                    /\ ContainsIgnoringCase(requests[r].loading_point, C.loading_point)
                    /\ ContainsIgnoringCase(requests[r].unloading_point, C.unloading_point)}

\* C13 happens: matching_carriers has just listed a request whose loading
\* point contains the cargo's in another case, at an offset.
C13_Witness ==
    /\ response = [op |-> "matching_carriers", code |-> 200]
    /\ \E c \in DOMAIN cargos, r \in DOMAIN requests :
          /\ body = <<r>>
          /\ cargos[c].loading_point = <<"a">>
          /\ requests[r].loading_point = <<"b", "A">>

----------------------------------------------------------------------------
(* update, partial_update and destroy by a user who is not the owner *)

\* notify_cargo_deletion: the owner, the assigned carrier and the managing
\* student, each if set.
notify_cargo_deletion(inst) ==
    delay([i \in 1..Len(SelectSeq(<<inst.owner, inst.assigned_to, inst.managed_by>>,
                                   LAMBDA u : u # NULL)) |->
            [to |-> SelectSeq(<<inst.owner, inst.assigned_to, inst.managed_by>>,
                              LAMBDA u : u # NULL)[i],
             via |-> "delete_signal"]])

\* instance.delete(): the row goes, the carrier requests bound to it are set
\* NULL, its history rows go with it.
DeleteCargo(c) ==
    [cargos |-> [k \in DOMAIN cargos \ {c} |-> cargos[k]],
     requests |-> [r \in DOMAIN requests |->
                    IF requests[r].assigned_cargo = c
                    THEN [requests[r] EXCEPT !.assigned_cargo = 0]
                    ELSE requests[r]],
     history |-> SelectSeq(history, LAMBDA h : h.cargo # c)]

\* CargoViewSet.destroy.
CargoDestroyOutcome(u, c) ==
    IF ~IsVerifiedUser(u) THEN Refuse(403)
    ELSE IF c \notin CargoQueryset(u) THEN Refuse(404)
    ELSE IF ~IsObjectOwner(u, cargos[c]) THEN Refuse(403)
    ELSE [code |-> 204, cargos |-> DeleteCargo(c).cargos,
          requests |-> DeleteCargo(c).requests,
          outbox |-> notify_cargo_deletion(cargos[c]),
          history |-> DeleteCargo(c).history]

\* destroy is served for the row with the highest pk, so that the pk the next
\* create takes names no live row.
destroy(u, c) ==
    /\ c \in DOMAIN cargos
    /\ c = Cardinality(DOMAIN cargos)
    /\ Serve("destroy", CargoDestroyOutcome(u, c))

UpdateData == StatusData \cup {[approval_notes |-> "note"]}

NextDestroy ==
    \/ \E u \in Users : \E r \in ProfileRoles(u) : update_profile(u, r)
    \/ \E u \in Users : CargoCreate(u, <<>>)
    \/ \E u \in Users, c \in CargoIds, d \in UpdateData : CargoUpdate(u, c, d)
    \/ \E u \in Users, c \in CargoIds : destroy(u, c)

SpecDestroy == Init /\ [][NextDestroy]_vars

\* C14: update, partial_update and destroy of a cargo requested by a user who
\* is not its owner are denied, with permission denied or not found, and the
\* cargo is left unchanged and undeleted.
C14_NonOwnerDenied ==
    \A u \in Users : \A c \in DOMAIN cargos :
        cargos[c].owner # u
        => /\ \A d \in UpdateData :
                /\ CargoUpdateOutcome(u, c, d).code \in {403, 404}
                /\ CargoUpdateOutcome(u, c, d).cargos = cargos
           /\ CargoDestroyOutcome(u, c).code \in {403, 404}
           /\ CargoDestroyOutcome(u, c).cargos = cargos

\* C14 happens: a user who can see a cargo of another user has just asked to
\* destroy it, was refused, and the cargo is there.
C14_Witness ==
    /\ response = [op |-> "destroy", code |-> 403]
    /\ \E u \in Users, c \in DOMAIN cargos :
          cargos[c].owner # u /\ c \in CargoQueryset(u)

----------------------------------------------------------------------------
(* Telegram login *)

TELEGRAM_BOT_TOKEN == "bot_token"

\* hmac.new(key, msg, sha256): distinct inputs give distinct digests.
hmac(key, msg) == <<"hmac-sha256", key, msg>>

\* The ids a Telegram client presents: the registered users and newcomers.
TelegramIds == Users \cup {"u3", "u4"}

\* auth_date as TelegramAuthSerializer.validate_auth_date sees it.
AuthDates == {"fresh", "older than a day"}

\* '\n'.join(f"{k}={v}" for k, v in sorted(data_without_hash.items())).
data_check_string(data) ==
    <<<<"auth_date", data.auth_date>>, <<"user", data.user>>>>

\* TelegramAuthBackend.verify_telegram_data.
verify_telegram_data(data) ==
    /\ TELEGRAM_BOT_TOKEN # ""
    /\ data.hash # <<>>
    /\ hmac(hmac("WebAppData", TELEGRAM_BOT_TOKEN), data_check_string(data)) = data.hash

\* The hashes a client sends: the right one for some data, a forged one, none.
AuthHashes ==
    {hmac(hmac("WebAppData", TELEGRAM_BOT_TOKEN),
          <<<<"auth_date", d>>, <<"user", t>>>>) : d \in AuthDates, t \in TelegramIds}
    \cup {<<"forged">>, <<>>}

AuthData == [hash : AuthHashes, user : TelegramIds, auth_date : AuthDates]

\* TelegramAuthSerializer.is_valid: hash is a non-blank string, auth_date is
\* not older than a day.
TelegramAuthSerializerValid(data) ==
    data.hash # <<>> /\ data.auth_date = "fresh"

\* RefreshToken.for_user(user): the pair of tokens of the response; a response
\* without tokens carries NoTokens.
Tokens(t) == [access |-> t, refresh |-> t]
NoTokens == Tokens(NULL)

\* UserViewSet.telegram_auth: status code, tokens (or NULL), the User table.
TelegramAuthOutcome(data) ==
    IF ~TelegramAuthSerializerValid(data)
    THEN [code |-> 400, tokens |-> NoTokens, accounts |-> accounts]
    ELSE IF data.user \notin accounts
    THEN [code |-> 404, tokens |-> NoTokens, accounts |-> accounts]
    ELSE [code |-> 200, tokens |-> Tokens(data.user), accounts |-> accounts]

\* UserViewSet.register.
RegisterOutcome(data) ==
    IF ~TelegramAuthSerializerValid(data)
    THEN [code |-> 400, tokens |-> NoTokens, accounts |-> accounts]
    ELSE IF data.user \in accounts
    THEN [code |-> 400, tokens |-> NoTokens, accounts |-> accounts]
    ELSE [code |-> 201, tokens |-> Tokens(data.user),
          accounts |-> accounts \cup {data.user}]

ServeAuth(op, data, o) ==
    /\ response' = [op |-> op, code |-> o.code]
    /\ body' = [request |-> data, tokens |-> o.tokens]
    /\ accounts' = o.accounts
    /\ outbox' = <<>>
    /\ UNCHANGED <<role, active, cargos, requests, pc, local, batch, history, ratings, rating, locations, location_id_seq>>

telegram_auth(data) == ServeAuth("telegram_auth", data, TelegramAuthOutcome(data))

register(data) == ServeAuth("register", data, RegisterOutcome(data))

NextAuth ==
    \/ \E data \in AuthData : telegram_auth(data)
    \/ \E data \in AuthData : register(data)

InitAuth ==
    /\ role = [u \in Users |-> "student"]
    /\ active = Users
    /\ accounts = Users
    /\ ratings = {}
    /\ locations = {}
    /\ location_id_seq = 1
    /\ rating = [u \in RatingUsers |-> 0]
    /\ body = <<>>
    /\ InitDb
    /\ InitIdle

SpecAuth == InitAuth /\ [][NextAuth]_vars

\* C15: telegram_auth and register issue tokens only when the hash of the
\* request equals the HMAC-SHA256 of its sorted key=value data under the
\* secret derived from the bot token.
C15_TokensOnlyForValidHash ==
    response.op \in {"telegram_auth", "register"} /\ body.tokens # NoTokens
    => verify_telegram_data(body.request)

----------------------------------------------------------------------------
(* Status transitions out of every status *)

\* A transition the table of validate_status does not list; out of a status
\* the table has no entry for, every change of status.
C16Bad(from, to) ==
    /\ to # from
    /\ from \in DOMAIN valid_transitions => to \notin valid_transitions[from]

\* C16: an update asking for a status transition that is not allowed is
\* answered with a validation error (4xx), whatever the current status,
\* pending_approval, manager_approved and rejected included, and leaves the
\* cargo unchanged; it never ends in an unhandled error.
C16_BadTransitionRefused ==
    \A u \in Users : \A c \in DOMAIN cargos : \A s \in CargoStatus :
        C16Bad(cargos[c].status, s)
        => LET o == CargoUpdateOutcome(u, c, [status |-> s])
           IN  /\ o.code \in 400..499
               /\ o.cargos = cargos

----------------------------------------------------------------------------
(* The vehicle of a carrier request *)

\* CarrierRequestViewSet.update / partial_update with a vehicle in the body:
\* CarrierRequestUpdateSerializer lists vehicle among its fields and has no
\* validate_vehicle, so the field admits every row of Vehicle.
CarrierRequestSetVehicleOutcome(u, r, vehicle) ==
    IF ~IsVerifiedUser(u) THEN Refuse(403)
    ELSE IF r \notin RequestQueryset(u) THEN Refuse(404)
    ELSE LET req == [requests[r] EXCEPT !.vehicle = vehicle]
         IN  Unhandled(RequestSaveRaises(FALSE, requests[r].status, req),
                 Outcome(200, cargos, [requests EXCEPT ![r] = req],
                         RequestSaveMessages(FALSE, requests[r].status, req,
                                             cargos)))

CarrierRequestSetVehicle(u, r, vehicle) ==
    Serve("request_update", CarrierRequestSetVehicleOutcome(u, r, vehicle))

NextVehicle ==
    \/ \E u \in Users : \E r \in ProfileRoles(u) : update_profile(u, r)
    \/ \E u \in Users, v \in Vehicles : CarrierRequestCreate(u, v)
    \/ \E u \in Users, r \in RequestIds, v \in Vehicles :
          CarrierRequestSetVehicle(u, r, v)

SpecVehicle == Init /\ [][NextVehicle]_vars

\* C17: after any sequence of create and update, the vehicle of a carrier
\* request is owned by the request's carrier; an update (or create) naming a
\* vehicle of another user is refused with a validation error.
C17_VehicleOwnedByCarrier ==
    /\ \A r \in DOMAIN requests :
          requests[r].vehicle # NULL
          => VehicleOwner(requests[r].vehicle) = requests[r].carrier
    /\ \A u \in Users, v \in Vehicles :
          VehicleOwner(v) # u
          => /\ CarrierRequestCreateOutcome(u, v).code = 400
             /\ \A r \in RequestQueryset(u) :
                   CarrierRequestSetVehicleOutcome(u, r, v).code = 400

\* What holds of C17: create refuses a vehicle of another user, and a request
\* just created has a vehicle of its carrier.
C17_CreateChecksOwner ==
    /\ \A u \in Users, v \in Vehicles :
          VehicleOwner(v) # u
          => /\ CarrierRequestCreateOutcome(u, v).code = 400
             /\ CarrierRequestCreateOutcome(u, v).requests = requests
    /\ response = [op |-> "request_create", code |-> 201]
       => \A r \in DOMAIN requests :
             VehicleOwner(requests[r].vehicle) = requests[r].carrier

----------------------------------------------------------------------------
(* Ratings *)

\* Rating.score: three of the choices 1..5.
Scores == {1, 2, 5}

\* The users rated in the model.
RatedUsers == {"u1"}

RECURSIVE SumScores(_)
SumScores(rows) ==
    IF rows = {} THEN 0
    ELSE LET row == CHOOSE x \in rows : TRUE
         IN  row.score + SumScores(rows \ {row})

\* round(x, 2) of the quotient sum / n, in hundredths: to the nearest
\* hundredth, a tie to the even one.
Round2(sum, n) ==
    LET q == (sum * 100) \div n
        r == (sum * 100) % n
    IN  IF 2 * r < n THEN q
        ELSE IF 2 * r > n THEN q + 1
        ELSE IF q % 2 = 0 THEN q ELSE q + 1

\* Rating.objects.filter(to_user=u) in a table.
Received(table, u) == {row \in table : row.to_user = u}

\* User.update_rating on a table: the new value of User.rating for u.  The
\* rating is left as it is when the user has no rating.
update_rating(table, column, u) ==
    IF Received(table, u) # {}
    THEN [column EXCEPT ![u] = Round2(SumScores(Received(table, u)),
                                      Cardinality(Received(table, u)))]
    ELSE column

\* Rating.save that leaves User.rating as it is: the variant that
\* C18_SavedUserRating has to tell from the code.
RatingSave_no_update(table, column, row) == column

\* Rating.save after the row is written: to_user.update_rating().
RatingSave(table, column, row) == update_rating(table, column, row.to_user)

ServeRating(op, code, row, table, column) ==
    /\ response' = [op |-> op, code |-> code]
    /\ body' = row
    /\ ratings' = table
    /\ rating' = column
    /\ outbox' = <<>>
    /\ UNCHANGED <<role, active, accounts, cargos, requests, pc, local, batch, history, locations, location_id_seq>>

\* RatingViewSet.create: RatingCreateSerializer.validate_to_user, then
\* Rating.objects.create; a second rating of the same pair breaks
\* unique_together.
rating_create(u, to, score) ==
    /\ Cardinality(ratings) < MaxRatings
    /\ LET row == [from_user |-> u, to_user |-> to, score |-> score]
           table == ratings \cup {row}
       IN  IF to = u
           THEN ServeRating("rating_create", 400, <<>>, ratings, rating)
           ELSE IF \E x \in ratings : x.from_user = u /\ x.to_user = to
           THEN ServeRating("rating_create", 500, <<>>, ratings, rating)
           ELSE ServeRating("rating_create", 201, row, table,
                            RatingSave(table, rating, row))

\* RatingViewSet.update / partial_update with a score: any verified user, any
\* row (get_queryset is Rating.objects.all() for detail actions).
rating_update(u, old, score) ==
    /\ old \in ratings
    /\ LET row == [old EXCEPT !.score = score]
           table == (ratings \ {old}) \cup {row}
       IN  ServeRating("rating_update", 200, row, table,
                       RatingSave(table, rating, row))

\* RatingViewSet.destroy: instance.delete(); Rating has no delete hook.
rating_destroy(u, old) ==
    /\ old \in ratings
    /\ ServeRating("rating_destroy", 204, <<>>, ratings \ {old}, rating)

NextRating ==
    \/ \E u \in RatingUsers, to \in RatedUsers, sc \in Scores : rating_create(u, to, sc)
    \/ \E u \in RatingUsers, old \in ratings, sc \in Scores : rating_update(u, old, sc)
    \/ \E u \in RatingUsers, old \in ratings : rating_destroy(u, old)

SpecRating == InitAuth /\ [][NextRating]_vars

\* The average of the scores a user has received, rounded to 2 decimals, in
\* hundredths.
AverageReceived(u) ==
    Round2(SumScores(Received(ratings, u)), Cardinality(Received(ratings, u)))

\* C18: after any sequence of Rating creations, updates and deletions, the
\* rating of a user who has received ratings is the average of their scores
\* rounded to 2 decimals, and every rating is within 0..5.
C18_RatingIsAverage ==
    \A u \in RatingUsers :
        /\ rating[u] \in 0..500
        /\ Received(ratings, u) # {} => rating[u] = AverageReceived(u)

\* What holds of C18: right after a Rating is created or updated, the rating
\* of the user it is for is the rounded average of the scores received, and
\* every rating is within 0..5.
C18_SavedUserRating ==
    /\ \A u \in RatingUsers : rating[u] \in 0..500
    /\ response.op \in {"rating_create", "rating_update"} /\ response.code \in {200, 201}
       => rating[body.to_user] = AverageReceived(body.to_user)

\* C18_SavedUserRating happens: a third rating has just been saved and the
\* average had to be rounded.
C18_Witness ==
    /\ response = [op |-> "rating_create", code |-> 201]
    /\ Cardinality(Received(ratings, body.to_user)) = 3
    /\ rating[body.to_user] = 267

----------------------------------------------------------------------------
(* import_locations *)

\* A row of core_location; parent and country are 0 when NULL.
Loc(id, level, parent, country) ==
    [id |-> id, level |-> level, parent |-> parent, country |-> country]

Ids(table) == {row.id : row \in table}

\* The rows of a file: INSERT INTO public.countries / states / cities.
CountryIds == 1..2
StateRows == [id : 2..MaxLocationId, country_id : CountryIds]
CityRows == [id : 1..MaxCities, state_id : {0, MaxLocationId}, country_id : CountryIds]

\* The temporary tables have id as primary key: a file's rows of one kind
\* have distinct ids.
DistinctIds(rows) == \A x, y \in rows : x.id = y.id => x = y

Files ==
    [countries : SUBSET CountryIds,
     states : {S \in SUBSET StateRows : Cardinality(S) <= 1},
     cities : {S \in SUBSET CityRows : DistinctIds(S)}]

\* _import_countries: level 1, the file's id, ON CONFLICT (id) DO NOTHING.
ImportCountries(table, file) ==
    table \cup {Loc(c, 1, 0, 0) : c \in file.countries \ Ids(table)}

\* _import_states: level 2 under the level-1 row with the id country_id.
ImportStates(table, file) ==
    table \cup {Loc(st.id, 2, st.country_id, st.country_id) :
                  st \in {x \in file.states :
                            /\ x.id \notin Ids(table)
                            /\ \E c \in table : c.id = x.country_id /\ c.level = 1}}

\* The cities of the first INSERT of _import_cities: state_id names a row of
\* level 2.
CitiesWithState(table, file) ==
    {c \in file.cities : \E st \in table : st.id = c.state_id /\ st.level = 2}

\* The cities of the second INSERT: state_id IS NULL.
CitiesWithoutState(table, file) == {c \in file.cities : c.state_id = 0}

\* The orders in which a SELECT may hand over a set of rows.
SelectOrders(S) ==
    {f \in [1..Cardinality(S) -> S] : \A i, j \in DOMAIN f : f[i] = f[j] => i = j}

\* INSERT ... SELECT without id, ON CONFLICT DO NOTHING: every row takes the
\* next value of the sequence and is dropped when that id is taken.  level is
\* 3; parent is the state for the first INSERT, the country for the second.
RECURSIVE InsertCities(_, _, _, _)
InsertCities(table, seq, rows, underState) ==
    IF rows = <<>> THEN table
    ELSE LET c == Head(rows)
             row == Loc(seq, 3, IF underState THEN c.state_id ELSE c.country_id,
                        c.country_id)
         IN  InsertCities(IF seq \in Ids(table) THEN table ELSE table \cup {row},
                          seq + 1, Tail(rows), underState)

\* The foreign keys parent_id and country_id, checked at the end of a
\* statement.
ForeignKeysHold(table) ==
    \A row \in table :
        /\ row.parent # 0 => row.parent \in Ids(table)
        /\ row.country # 0 => row.country \in Ids(table)

\* _import_cities: the two INSERTs; a foreign-key violation raises and
\* handle rolls the cities back (the sequence keeps its value).
ImportCities(table, seq, file, first, second) ==
    LET t1 == InsertCities(table, seq, first, TRUE)
        s1 == seq + Len(first)
        t2 == InsertCities(t1, s1, second, FALSE)
        s2 == s1 + Len(second)
    IN  IF ~ForeignKeysHold(t1) THEN [table |-> table, seq |-> s1]
        ELSE IF ~ForeignKeysHold(t2) THEN [table |-> table, seq |-> s2]
        ELSE [table |-> t2, seq |-> s2]

ImportOptions == {"all", "countries_only", "states_only", "cities_only"}

\* Command.handle: the three imports in turn, each committed, as the options
\* select them.
import_locations(file, option) ==
    /\ location_id_seq <= MaxSeq
    /\ LET t1 == IF option \in {"all", "countries_only"}
                 THEN ImportCountries(locations, file) ELSE locations
           t2 == IF option \in {"all", "states_only"}
                 THEN ImportStates(t1, file) ELSE t1
       IN  IF option \in {"all", "cities_only"}
           THEN \E first \in SelectOrders(CitiesWithState(t2, file)),
                   second \in SelectOrders(CitiesWithoutState(t2, file)) :
                    /\ locations' =
                          ImportCities(t2, location_id_seq, file, first, second).table
                    /\ location_id_seq' =
                          ImportCities(t2, location_id_seq, file, first, second).seq
           ELSE /\ locations' = t2
                /\ UNCHANGED location_id_seq
    /\ response' = [op |-> "import_locations", code |-> 0]
    /\ outbox' = <<>>
    /\ UNCHANGED <<role, active, accounts, ratings, rating, body, cargos, requests, pc, local, batch, history>>

NextImport == \E file \in Files, option \in ImportOptions : import_locations(file, option)

SpecImport == InitAuth /\ [][NextImport]_vars

\* C19: every Location row that has a parent has level = parent.level + 1,
\* whatever import_locations has created from countries, states and cities
\* with or without a state.
C19_ParentLevel ==
    \A row \in locations :
        row.parent # 0
        => \E p \in locations : p.id = row.parent /\ row.level = p.level + 1

\* What holds of C19: the rows of level 1 have no parent, a row of level 2 is
\* under a row of level 1, and every parent named is a row of the table.
C19_CountriesAndStates ==
    \A row \in locations :
        /\ row.level = 1 => row.parent = 0
        /\ row.level = 2 => \E p \in locations : p.id = row.parent /\ p.level = 1
        /\ row.parent # 0 => row.parent \in Ids(locations)

----------------------------------------------------------------------------
(* find_locations_in_radius *)

\* Latitudes and longitudes: 0 and 1 degree; NoDec is NULL.
Degrees == {0, 1}
Coordinates == Degrees \cup {NoDec}
Levels == {2, 3}

\* LocationService.calculate_distance between points of the grid, in
\* centimetres: the values of the Haversine formula with R = 6371 km.
calculate_distance(lat1, lon1, lat2, lon2) ==
    LET dlat == IF lat1 < lat2 THEN lat2 - lat1 ELSE lat1 - lat2
        dlon == IF lon1 < lon2 THEN lon2 - lon1 ELSE lon1 - lon2
    IN  CASE dlat = 0 /\ dlon = 0 -> 0
          [] dlat = 1 /\ dlon = 0 -> 11119492
          [] dlat = 0 /\ dlon = 1 /\ lat1 = 0 -> 11119492
          [] dlat = 0 /\ dlon = 1 /\ lat1 = 1 -> 11117799
          [] dlat = 1 /\ dlon = 1 -> 15724938

\* The radii asked for, in centimetres: none, exactly one degree, between
\* the side and the diagonal, beyond the diagonal.
Radii == {0, 11119492, 12000000, 20000000}

\* Location.objects.filter(level=level) as the list the loop walks, in the
\* order of the ids.
RECURSIVE LocationList(_)
LocationList(rows) ==
    IF rows = {} THEN <<>>
    ELSE LET r == CHOOSE x \in rows : \A y \in rows : x.id <= y.id
         IN  <<r>> \o LocationList(rows \ {r})

\* sorted(results, key=lambda x: x['distance']): a stable sort.
RECURSIVE SortedByDistance(_)
SortedByDistance(results) ==
    IF results = <<>> THEN <<>>
    ELSE LET i == CHOOSE k \in DOMAIN results :
                    /\ \A j \in DOMAIN results : results[k].distance <= results[j].distance
                    /\ \A j \in 1..(k - 1) : results[j].distance # results[k].distance
         IN  <<results[i]>>
             \o SortedByDistance(SubSeq(results, 1, i - 1)
                                 \o SubSeq(results, i + 1, Len(results)))

\* The test that takes a row into the scan when both coordinates are not
\* NULL: the variant that C20_NonZeroCoordinates has to tell from the code.
HasCoordinates_anything(location) == TRUE

\* `if location.latitude and location.longitude`: the truth of two Decimals.
HasCoordinates(location) == Truthy(location.latitude) /\ Truthy(location.longitude)

\* LocationService.find_locations_in_radius: id and rounded distance (in
\* hundredths of a km) of each result.
find_locations_in_radius(latitude, longitude, radius, level) ==
    LET scanned == LocationList({row \in locations : row.level = level})
        hit(row) == /\ HasCoordinates(row)
                    /\ calculate_distance(latitude, longitude,
                                          row.latitude, row.longitude) <= radius
        hits == SelectSeq(scanned, hit)
    IN  SortedByDistance(
            [i \in DOMAIN hits |->
                [id |-> hits[i].id,
                 distance |-> Round2(
                     calculate_distance(latitude, longitude,
                                        hits[i].latitude, hits[i].longitude),
                     100000)]])

\* A row of core_location with its coordinates, as the import writes it.
LocationInsert(level, latitude, longitude) ==
    /\ Cardinality(locations) < MaxLocations
    /\ locations' = locations \cup
          {[id |-> location_id_seq, level |-> level,
            latitude |-> latitude, longitude |-> longitude]}
    /\ location_id_seq' = location_id_seq + 1
    /\ response' = [op |-> "import_locations", code |-> 0]
    /\ outbox' = <<>>
    /\ UNCHANGED <<role, active, accounts, ratings, rating, body, cargos, requests, pc, local, batch, history>>

\* A search served: the results are the data of the response.
RadiusSearch(latitude, longitude, radius, level) ==
    /\ response' = [op |-> "find_locations_in_radius", code |-> 200]
    /\ body' = [query |-> <<latitude, longitude, radius, level>>,
                results |-> find_locations_in_radius(latitude, longitude, radius, level)]
    /\ outbox' = <<>>
    /\ UNCHANGED <<role, active, accounts, ratings, rating, locations, location_id_seq, cargos, requests, pc, local, batch, history>>

NextRadius ==
    \/ \E level \in Levels, lat \in Coordinates, lon \in Coordinates :
          LocationInsert(level, lat, lon)
    \/ \E lat \in Degrees, lon \in Degrees, radius \in Radii, level \in Levels :
          RadiusSearch(lat, lon, radius, level)

SpecRadius == InitAuth /\ [][NextRadius]_vars

\* The results list each row once, in non-decreasing distance.
C20Ordered(results) ==
    /\ \A i, j \in DOMAIN results : results[i].id = results[j].id => i = j
    /\ \A i, j \in DOMAIN results : i < j => results[i].distance <= results[j].distance

\* C20: find_locations_in_radius(lat, lon, radius, level) returns exactly the
\* locations of the given level that have a latitude and a longitude and lie
\* within the radius, each once, ordered by non-decreasing distance.
C20_ExactlyWithinRadius ==
    \A lat \in Degrees, lon \in Degrees, radius \in Radii, level \in Levels :
        LET results == find_locations_in_radius(lat, lon, radius, level)
        IN  /\ C20Ordered(results)
            /\ {results[i].id : i \in DOMAIN results}
               = {row.id : row \in
                    {x \in locations :
                        /\ x.level = level
                        /\ x.latitude # NoDec /\ x.longitude # NoDec
                        /\ calculate_distance(lat, lon, x.latitude, x.longitude)
                           <= radius}}

\* What holds of C20: the same, for the locations whose latitude and
\* longitude are both set and not 0.
C20_NonZeroCoordinates ==
    \A lat \in Degrees, lon \in Degrees, radius \in Radii, level \in Levels :
        LET results == find_locations_in_radius(lat, lon, radius, level)
        IN  /\ C20Ordered(results)
            /\ {results[i].id : i \in DOMAIN results}
               = {row.id : row \in
                    {x \in locations :
                        /\ x.level = level
                        /\ x.latitude \notin {NoDec, 0} /\ x.longitude \notin {NoDec, 0}
                        /\ calculate_distance(lat, lon, x.latitude, x.longitude)
                           <= radius}}

----------------------------------------------------------------------------
(* Properties of the carrier-request update operation *)

\* The table of carrier-request transitions as the specification states it.
C21Allowed(s) ==
    CASE s = "pending" -> {"cancelled"}
      [] s = "assigned" -> {"accepted", "rejected"}
      [] s = "accepted" -> {"completed", "cancelled"}
      [] s = "rejected" -> {"pending"}
      [] s = "cancelled" -> {"pending"}
      [] s = "completed" -> {}

\* C21: whoever asks, an update of a carrier request from status s to a
\* different status t changes the stored status only when t is in the table
\* of s; any other change is answered with a client error and leaves the
\* CarrierRequest table as it was, so a completed request keeps its status
\* under every update.
C21_RequestTransitions ==
    \A u \in Users, r \in DOMAIN requests, t \in RequestStatus :
        LET s == requests[r].status
            o == CarrierRequestUpdateOutcome(u, r, t)
        IN  /\ (t # s /\ t \notin C21Allowed(s))
               => /\ o.code \in {400, 403, 404}
                  /\ o.requests = requests
            /\ o.requests[r].status # s => o.requests[r].status \in C21Allowed(s)
            /\ s = "completed" => o.requests[r].status = "completed"

\* C21 happens: the carrier of a completed request, who can address it, has
\* just been refused a change of its status.
C21_Witness ==
    /\ response = [op |-> "request_update", code |-> 400]
    /\ \E u \in Users, r \in DOMAIN requests :
          /\ requests[r].status = "completed"
          /\ r \in RequestQueryset(u)
          /\ requests[r].carrier = u

----------------------------------------------------------------------------
(* The periodic task check_expired_cargos (core/tasks.py), run by the beat *)
(* schedule every hour.  The task runs in a worker, outside any request:   *)
(* no transaction is open around its save(), so the post_save handler does *)
(* not return early.                                                       *)

\* Cargo.objects.filter(status='active', loading_date__lt=threshold).
expired_cargos(threshold) ==
    {c \in DOMAIN cargos :
        cargos[c].status = "active" /\ cargos[c].loading_date < threshold}

\* The body of the loop for one cargo: the Notification row for the owner,
\* then what cargo.save() enqueues for the change to expired: the post_save
\* handler notifies the owner and the managing student, and Cargo.save runs
\* its own fan-out.
ExpireMessages(inst) ==
    NotificationRows(<<inst.owner>>)
    \o notify_users(<<inst.owner>>, "signal")
    \o notify_users(<<inst.managed_by>>, "signal")
    \o CargoSaveNotify(FALSE, inst.status, [inst EXCEPT !.status = "expired"])

RECURSIVE ExpireOutbox(_)
ExpireOutbox(pks) ==
    IF pks = <<>> THEN <<>>
    ELSE ExpireMessages(cargos[Head(pks)]) \o ExpireOutbox(Tail(pks))

\* One run of the task at a date: threshold = timezone.now().date().
check_expired_cargos(threshold) ==
    /\ cargos' = [c \in DOMAIN cargos |->
                    IF c \in expired_cargos(threshold)
                    THEN CargoSaveRow([cargos[c] EXCEPT !.status = "expired"])
                    ELSE cargos[c]]
    /\ outbox' = ExpireOutbox(AsList(expired_cargos(threshold)))
    /\ response' = [op |-> "check_expired_cargos", code |-> 0]
    /\ body' = [threshold |-> threshold]
    /\ UNCHANGED <<role, active, accounts, requests, pc, local, batch, history, ratings, rating, locations, location_id_seq>>

\* CargoAdmin.mark_as_active on a selection of one cargo: queryset.update
\* writes the status without save() or signals, then a CargoStatusHistory row
\* is created, whose save() sends a message to the owner.
mark_as_active(c) ==
    /\ c \in DOMAIN cargos
    /\ Len(history) < MaxHistory
    /\ cargos' = [cargos EXCEPT ![c].status = "active"]
    /\ history' = Append(history, HistoryRow(c, "active", "admin"))
    /\ outbox' = <<[to |-> cargos[c].owner, via |-> "history"]>>
    /\ response' = [op |-> "mark_as_active", code |-> 302]
    /\ UNCHANGED <<role, active, accounts, body, requests, pc, local, batch, ratings, rating, locations, location_id_seq>>

\* The dates at which the task runs: every loading date, and the day after
\* the last one.
RunDates == 1..(MaxDate + 1)

NextExpire ==
    \/ \E u \in Users, lp \in CargoPoints, up \in CargoPoints, d \in Dates :
          MatchCargoCreate(u, lp, up, d)
    \/ \E u \in Users, c \in CargoIds, d \in StatusData : CargoUpdate(u, c, d)
    \/ \E c \in CargoIds : mark_as_active(c)
    \/ \E today \in RunDates : check_expired_cargos(today)

SpecExpire == InitMatch /\ [][NextExpire]_vars

\* C22: after a run of check_expired_cargos, no cargo is left in status
\* pending with a loading_date before the date of the run: each such cargo
\* has been moved to expired.
C22_StaleExpired ==
    response.op = "check_expired_cargos"
    => \A c \in DOMAIN cargos :
          cargos[c].loading_date < body.threshold => cargos[c].status # "pending"

\* What holds of C22: the task expires the cargos whose status is the string
\* 'active', which only the admin action mark_as_active stores: after a run
\* none of them is left with a loading_date before the date of the run, and
\* the run wrote one Notification row for the owner of each cargo it expired.
C22_ActiveExpired ==
    response.op = "check_expired_cargos"
    => /\ \A c \in DOMAIN cargos :
             cargos[c].loading_date < body.threshold => cargos[c].status # "active"
       /\ Len(SelectSeq(outbox, LAMBDA x : x.via = "Notification")) = 1
          => \E c \in DOMAIN cargos :
                /\ cargos[c].status = "expired"
                /\ outbox[1] = [to |-> cargos[c].owner, via |-> "Notification"]

\* The task has just expired a cargo the admin had marked active.
C22_ExpiredCase ==
    /\ response.op = "check_expired_cargos"
    /\ \E c \in DOMAIN cargos : cargos[c].status = "expired"
    /\ outbox # <<>>

----------------------------------------------------------------------------
(* Properties of the life cycle of a cargo *)

C23_UpdateKeepsCompleted ==
    \A u \in Users, c \in DOMAIN cargos :
        cargos[c].status = "completed"
        => /\ \A d \in StatusData :
                 CargoUpdateOutcome(u, c, d).cargos[c].status = "completed"
           /\ \A d \in {"accept", "reject"} :
                 AcceptAssignmentOutcome(u, c, d).cargos = cargos

C24_UpdateKeepsGate ==
    \A u \in Users, c \in DOMAIN cargos :
        cargos[c].status = "pending_approval"
        => /\ \A d \in StatusData :
                 d.status # "pending_approval"
                 => CargoUpdateOutcome(u, c, d).cargos = cargos
           /\ \A d \in {"accept", "reject"} :
                 AcceptAssignmentOutcome(u, c, d).cargos = cargos

\* C25: in every reachable state a cargo whose status is assigned or
\* in_progress has a carrier in assigned_to.
C25_AssignedHasCarrier ==
    \A c \in DOMAIN cargos :
        cargos[c].status \in {"assigned", "in_progress"}
        => cargos[c].assigned_to # NULL

\* What holds of C25: a student is refused the update of a pending cargo
\* without a carrier to assigned, and an assignment that is served leaves the
\* cargo with the carrier of the request.
C25_StudentNeedsCarrier ==
    \A u \in Users, c \in DOMAIN cargos :
        /\ (/\ role[u] = "student" /\ cargos[c].status = "pending"
            /\ cargos[c].assigned_to = NULL)
           => LET o == CargoUpdateOutcome(u, c, [status |-> "assigned"])
              IN  o.code \in {400, 403, 404} /\ o.cargos = cargos
        /\ \A r \in DOMAIN requests :
              LET o == AssignCarrierOutcome(u, c, r)
              IN  o.code = 200 => o.cargos[c].assigned_to = requests[r].carrier

----------------------------------------------------------------------------
(* The binding of carrier requests to cargos: a carrier with several       *)
(* requests, a student who owns a cargo and assigns it, requests served    *)
(* one at a time.                                                          *)

\* CarrierRequestViewSet.create, up to MaxBound rows.
BindRequestCreate(u, vehicle) ==
    /\ Cardinality(DOMAIN requests) < MaxBound
    /\ Serve("request_create", CarrierRequestCreateOutcome(u, vehicle))

InitBind ==
    /\ role = [u \in Users |-> IF u = "u1" THEN "carrier" ELSE "student"]
    /\ active = Users
    /\ accounts = Users
    /\ ratings = {}
    /\ locations = {}
    /\ location_id_seq = 1
    /\ rating = [u \in RatingUsers |-> 0]
    /\ body = <<>>
    /\ InitDb
    /\ InitIdle

NextBind ==
    \/ \E u \in Users : CargoCreate(u, <<>>)
    \/ \E u \in Users, c \in CargoIds, d \in StatusData : CargoUpdate(u, c, d)
    \/ \E u \in Users, v \in Vehicles : BindRequestCreate(u, v)
    \/ \E u \in Users, c \in CargoIds, r \in 1..MaxBound : assign_carrier(u, c, r)
    \/ \E u \in Users, c \in CargoIds, d \in {"accept", "reject"} :
          accept_assignment(u, c, d)
    \/ \E u \in Users, r \in 1..MaxBound, st \in RequestStatus :
          r \in DOMAIN requests /\ CarrierRequestUpdate(u, r, st)

SpecBind == InitBind /\ [][NextBind]_vars

C26_RequestBoundOnce ==
    \A u \in Users, c \in DOMAIN cargos, r \in DOMAIN requests :
        requests[r].assigned_cargo # 0
        => AssignCarrierOutcome(u, c, r).requests = requests

----------------------------------------------------------------------------
(* Properties of the roles *)

\* C27: no step of the user operations gives the manager role to a user who
\* is not staff and did not have it.
C27_NoSelfPromotion ==
    [][\A u \in Users :
          (~is_staff(u) /\ role[u] # "manager") => role'[u] # "manager"]_vars

C28_RequesterRecorded ==
    \A u \in Users, c \in DOMAIN cargos, r \in DOMAIN requests :
        LET o == AssignCarrierOutcome(u, c, r)
        IN  o.code = 200
            => /\ c \in CargoQueryset(u)
               /\ o.cargos[c].managed_by = u
               /\ o.requests[r].assigned_by = u

----------------------------------------------------------------------------
(* Concurrent increment_views.  The view loads the cargo with get_object,  *)
(* adds one to views_count in memory and saves that column; between the    *)
(* read and the write another request may read or write the same row (no   *)
(* row lock, no F() expression).                                           *)

\* The requests in flight.
ViewProcs == {"p1", "p2", "p3"}

\* The cargo rows of this specification: the view counter is part of the row.
ViewsCargos ==
    [c \in RaceCargos |->
        [views_count |-> 0]
        @@ (IF c = 1 THEN NewCargo("u1", "pending") ELSE NewCargo("u2", "draft"))]

InitViews ==
    /\ role = [u \in Users |-> IF u = "u1" THEN "carrier" ELSE "student"]
    /\ active = Users
    /\ accounts = Users
    /\ ratings = {}
    /\ locations = {}
    /\ location_id_seq = 1
    /\ rating = [u \in RatingUsers |-> 0]
    /\ body = <<>>
    /\ cargos = ViewsCargos
    /\ requests = <<>>
    /\ response = [op |-> "none", code |-> 0]
    /\ outbox = <<>>
    /\ pc = [p \in ViewProcs |-> "idle"]
    /\ local = [p \in ViewProcs |-> <<>>]
    /\ batch = <<>>
    /\ history = <<>>

\* cargo = self.get_object(): permission, queryset, and the row as loaded.
ViewsLoad(p, u, c) ==
    /\ pc[p] = "idle"
    /\ IF ~IsVerifiedUser(u) \/ c \notin CargoQueryset(u)
       THEN /\ pc' = [pc EXCEPT ![p] = "refused"]
            /\ response' = [op |-> "increment_views",
                            code |-> IF IsVerifiedUser(u) THEN 404 ELSE 403]
            /\ UNCHANGED local
       ELSE /\ pc' = [pc EXCEPT ![p] = "loaded"]
            /\ local' = [local EXCEPT ![p] =
                            [user |-> u, pk |-> c, instance |-> cargos[c]]]
            /\ UNCHANGED response
    /\ UNCHANGED <<role, active, accounts, body, cargos, requests, outbox, batch, history, ratings, rating, locations, location_id_seq>>

\* cargo.views_count += 1 on the loaded instance, then
\* cargo.save(update_fields=['views_count']): Cargo.save compares the status
\* of the row with the status of the instance, writes the one column, and
\* answers.
ViewsSave(p) ==
    /\ pc[p] = "loaded"
    /\ LET l == local[p]
           inst == [CargoSaveRow(l.instance) EXCEPT
                       !.views_count = l.instance.views_count + 1]
       IN  /\ cargos' = [cargos EXCEPT ![l.pk].views_count = inst.views_count]
           /\ outbox' = CargoSaveMessages(FALSE, cargos[l.pk].status, inst)
    /\ response' = [op |-> "increment_views", code |-> 200]
    /\ pc' = [pc EXCEPT ![p] = "done"]
    /\ UNCHANGED <<role, active, accounts, body, requests, local, batch, history, ratings, rating, locations, location_id_seq>>

NextViews ==
    \/ \E p \in ViewProcs, u \in Users, c \in RaceCargos : ViewsLoad(p, u, c)
    \/ \E p \in ViewProcs : ViewsSave(p)

SpecViews == InitViews /\ [][NextViews]_vars

\* The increment_views requests on cargo c that have completed, and those
\* still between their read and their write.
ViewsDone(c) == {p \in ViewProcs : pc[p] = "done" /\ local[p].pk = c}
ViewsInFlight(c) == {p \in ViewProcs : pc[p] = "loaded" /\ local[p].pk = c}

\* C29: once the increment_views requests on a cargo have completed, in
\* whatever order their reads and writes interleaved, views_count has grown
\* by their number and no other field of the cargo has changed.
C29_NoViewLost ==
    \A c \in DOMAIN cargos :
        ViewsInFlight(c) = {}
        => /\ cargos[c].views_count = Cardinality(ViewsDone(c))
           /\ [cargos[c] EXCEPT !.views_count = 0] = ViewsCargos[c]

\* What holds of C29: the requests write no field but views_count, and the
\* counter is at least 1 and at most the number of completed requests once
\* one has completed.
C29_OtherFieldsKept ==
    \A c \in DOMAIN cargos :
        /\ [cargos[c] EXCEPT !.views_count = 0] = ViewsCargos[c]
        /\ cargos[c].views_count <= Cardinality(ViewsDone(c))
        /\ ViewsDone(c) # {} => cargos[c].views_count >= 1

\* Two requests on the same cargo have completed and one view is missing.
C29_LostCase ==
    \E c \in DOMAIN cargos :
        /\ Cardinality(ViewsDone(c)) = 2
        /\ cargos[c].views_count = 1

----------------------------------------------------------------------------
(* Properties of the notification fan-out *)

\* The Telegram messages the last request enqueued for user u from Cargo.save
\* and from the Cargo post_save handler.
C30Messages(u) ==
    SelectSeq(outbox, LAMBDA x : x.to = u /\ x.via \in {"signal", "save"})

C30_StatusChangeOnce ==
    response.op \in {"update", "assign_carrier", "accept_assignment",
                     "approve", "reject"}
    => \A u \in Users :
          /\ Len(C30Messages(u)) <= 1
          /\ \A i \in DOMAIN C30Messages(u) : C30Messages(u)[i].via = "save"

\* A status change has just enqueued a message from Cargo.save.
C30_StatusChangeCase ==
    /\ response = [op |-> "approve", code |-> 200]
    /\ \E u \in Users : Len(C30Messages(u)) = 1

====
